---------------------------- MODULE Spec2Model ----------------------------
(***************************************************************************)
(* A model of the interactive shape editor of src/drawing_canvas.py        *)
(* (class DrawingCanvas) and of the annotation manager of                  *)
(* src/annotations.py (class AnnotationManager).                           *)
(*                                                                         *)
(* Shapes are Python objects with identity: the model keeps them in a heap *)
(* `objs` (index = identity) and every list of the program (shapes,        *)
(* selected_shapes, the entries of the undo and redo stacks) holds         *)
(* identities.  Coordinates are whole pixels; where the program produces a *)
(* fraction (a midpoint, an intersection point) the model rounds it down   *)
(* to a whole pixel.  A circle's radius is held squared (radius2), which   *)
(* is a whole number whenever the coordinates are.                         *)
(*                                                                         *)
(* Every handler is an operator from a canvas record to the canvas record  *)
(* after the call.  A handler that raises leaves the name of the exception *)
(* in the field exc, together with the assignments made before the raise.  *)
(***************************************************************************)
EXTENDS Integers, Sequences, FiniteSets, TLC

-----------------------------------------------------------------------------
(* Bounds of the model *)

\* shapes ever constructed (size of the heap)
MaxShapes == 2
\* the same, where the claim is about one shape
OneShape == 1
\* entries on the undo stack
MaxUndo == 2
\* pending points of a polygon
MaxPoints == 3
\* |coordinate| of a shape after a drag
MaxCoord == 100
\* calls of undo, then of redo, in a round trip
MaxRound == 4

\* pointer positions of the events
Clicks == {<<0, 0>>, <<80, 0>>, <<80, 60>>, <<4, 3>>}

Modes == {"line", "rectangle", "circle", "polygon"}
\* values given to set_color, set_width and set_style
Colors == {"red"}
Widths == {"3"}
Styles == {"5,5"}

-----------------------------------------------------------------------------
(* Program constants *)

MIN_SIZE == 10
snap_distance == 10
HANDLE_TOL == 5
SELECT_TOL == 5
DUP_OFFSET == 20

-----------------------------------------------------------------------------
(* Lists *)

Min(a, b) == IF a <= b THEN a ELSE b
Max(a, b) == IF a >= b THEN a ELSE b
Abs(a) == IF a >= 0 THEN a ELSE -a

Range(s) == {s[i] : i \in 1..Len(s)}
Contains(s, x) == \E i \in 1..Len(s) : s[i] = x

\* list.index(x): the least position (1-based here) holding x
IndexOf(s, x) == CHOOSE i \in 1..Len(s) : s[i] = x /\ \A j \in 1..(i - 1) : s[j] # x

\* list.remove(x): drops the first occurrence
ListRemove(s, x) ==
    LET i == IndexOf(s, x)
    IN  SubSeq(s, 1, i - 1) \o SubSeq(s, i + 1, Len(s))

\* list.insert(i, x) with a 0-based i <= len
ListInsert(s, i, x) == SubSeq(s, 1, i) \o <<x>> \o SubSeq(s, i + 1, Len(s))

RECURSIVE SqrtIter(_, _, _)
SqrtIter(n, lo, hi) ==
    IF lo >= hi THEN lo
    ELSE LET mid == (lo + hi + 1) \div 2
         IN  IF mid * mid <= n THEN SqrtIter(n, mid, hi)
             ELSE SqrtIter(n, lo, mid - 1)

\* floor of the square root
ISqrt(n) == IF n <= 0 THEN 0 ELSE SqrtIter(n, 0, Min(n, 46340))

\* floor of a / b for any sign of b
FloorDiv(a, b) == IF b > 0 THEN a \div b ELSE (-a) \div (-b)

Dist2(p, q) == (p[1] - q[1]) * (p[1] - q[1]) + (p[2] - q[2]) * (p[2] - q[2])

\* An optional value (None or v) is held as <<>> or <<v>>
None == <<>>
Some(v) == <<v>>

-----------------------------------------------------------------------------
(* Shapes *)

LineAttrs == {"x1", "y1", "x2", "y2"}
CircleAttrs == {"center_x", "center_y", "x2", "y2", "radius"}

\* The attributes a shape object can carry; attrs names those it has.
BlankShape ==
    [kind |-> "Shape", attrs |-> {}, x1 |-> 0, y1 |-> 0, x2 |-> 0, y2 |-> 0,
     center_x |-> 0, center_y |-> 0, radius2 |-> 0, points |-> <<>>,
     color |-> "black", width |-> "1", style |-> "None", is_selected |-> FALSE]

Line(x1, y1, x2, y2, color, width, style) ==
    [BlankShape EXCEPT !.kind = "Line", !.attrs = LineAttrs,
        !.x1 = x1, !.y1 = y1, !.x2 = x2, !.y2 = y2,
        !.points = <<(<<x1, y1>>), (<<x2, y2>>)>>,
        !.color = color, !.width = width, !.style = style]

RectPoints(x1, y1, x2, y2) == <<(<<x1, y1>>), (<<x2, y1>>), (<<x2, y2>>), (<<x1, y2>>)>>

\* Rectangle.__init__ without the ordering of the corners
RectangleAsClicked(x1, y1, x2, y2, color, width, style) ==
    [BlankShape EXCEPT !.kind = "Rectangle", !.attrs = LineAttrs,
        !.x1 = x1, !.y1 = y1, !.x2 = x2, !.y2 = y2,
        !.points = RectPoints(x1, y1, x2, y2),
        !.color = color, !.width = width, !.style = style]

Rectangle(x1, y1, x2, y2, color, width, style) ==
    LET nx1 == Min(x1, x2)
        ny1 == Min(y1, y2)
        nx2 == Max(x1, x2)
        ny2 == Max(y1, y2)
    IN  [BlankShape EXCEPT !.kind = "Rectangle", !.attrs = LineAttrs,
            !.x1 = nx1, !.y1 = ny1, !.x2 = nx2, !.y2 = ny2,
            !.points = RectPoints(nx1, ny1, nx2, ny2),
            !.color = color, !.width = width, !.style = style]

Circle(center_x, center_y, x2, y2, color, width, style) ==
    [BlankShape EXCEPT !.kind = "Circle", !.attrs = CircleAttrs,
        !.center_x = center_x, !.center_y = center_y, !.x2 = x2, !.y2 = y2,
        !.radius2 = Dist2(<<center_x, center_y>>, <<x2, y2>>),
        !.points = <<(<<center_x, center_y>>), (<<x2, y2>>)>>,
        !.color = color, !.width = width, !.style = style]

Polygon(points, color, width, style) ==
    [BlankShape EXCEPT !.kind = "Polygon", !.points = points,
        !.color = color, !.width = width, !.style = style]

-----------------------------------------------------------------------------
(* Geometry *)

\* get_shape_lines: the segments of a shape, taken from its points list.
\* A Rectangle whose points list is shorter than 4 raises IndexError there.
ShapeLinesRaise(s) == s.kind = "Rectangle" /\ Len(s.points) < 4

get_shape_lines(s) ==
    LET pts == s.points
    IN  IF s.kind = "Line" THEN <<(<<pts[1], pts[2]>>)>>
        ELSE IF s.kind = "Rectangle"
        THEN [i \in 1..4 |-> <<pts[i], pts[(i % 4) + 1]>>]
        ELSE IF s.kind = "Polygon"
        THEN [i \in 1..Len(pts) |-> <<pts[i], pts[(i % Len(pts)) + 1]>>]
        ELSE <<>>

\* get_line_line_intersection: t and u are compared with 0 and 1 through
\* their numerators and the common denominator.
get_line_line_intersection(line1, line2) ==
    LET x1 == line1[1][1]
        y1 == line1[1][2]
        x2 == line1[2][1]
        y2 == line1[2][2]
        x3 == line2[1][1]
        y3 == line2[1][2]
        x4 == line2[2][1]
        y4 == line2[2][2]
        denominator == (x1 - x2) * (y3 - y4) - (y1 - y2) * (x3 - x4)
        tn == (x1 - x3) * (y3 - y4) - (y1 - y3) * (x3 - x4)
        un == -((x1 - x2) * (y1 - y3) - (y1 - y2) * (x1 - x3))
        InUnit(n) == IF denominator > 0 THEN 0 <= n /\ n <= denominator
                     ELSE denominator <= n /\ n <= 0
    IN  IF denominator = 0 THEN <<>>
        ELSE IF InUnit(tn) /\ InUnit(un)
        THEN <<(<<x1 + FloorDiv(tn * (x2 - x1), denominator),
                  y1 + FloorDiv(tn * (y2 - y1), denominator)>>)>>
        ELSE <<>>

Between(v, a, b) == Min(a, b) <= v /\ v <= Max(a, b)

\* get_circle_line_intersection, vertical line: D = b*b - 4*a*c is a whole
\* number, so D < -0.1 is D < 0 and abs(D) <= 0.1 is D = 0.
CircleLineVertical(p1, p2, cx, cy, r2) ==
    LET x == p1[1]
        b == -2 * cy
        c == cy * cy + (x - cx) * (x - cx) - r2
        D == b * b - 4 * c
        y_t == (-b) \div 2
        y1_int == (-b + ISqrt(D)) \div 2
        y2_int == (-b - ISqrt(D)) \div 2
    IN  IF D < 0 THEN <<>>
        ELSE IF D = 0
        THEN (IF Between(y_t, p1[2], p2[2]) THEN <<(<<x, y_t>>)>> ELSE <<>>)
        ELSE (IF Between(y1_int, p1[2], p2[2]) THEN <<(<<x, y1_int>>)>> ELSE <<>>)
             \o (IF Between(y2_int, p1[2], p2[2]) THEN <<(<<x, y2_int>>)>> ELSE <<>>)

CircleLineHorizontal(p1, p2, cx, cy, r2) ==
    LET y == p1[2]
        b == -2 * cx
        c == cx * cx + (y - cy) * (y - cy) - r2
        D == b * b - 4 * c
        x_t == (-b) \div 2
        x1_int == (-b + ISqrt(D)) \div 2
        x2_int == (-b - ISqrt(D)) \div 2
    IN  IF D < 0 THEN <<>>
        ELSE IF D = 0
        THEN (IF Between(x_t, p1[1], p2[1]) THEN <<(<<x_t, y>>)>> ELSE <<>>)
        ELSE (IF Between(x1_int, p1[1], p2[1]) THEN <<(<<x1_int, y>>)>> ELSE <<>>)
             \o (IF Between(x2_int, p1[1], p2[1]) THEN <<(<<x2_int, y>>)>> ELSE <<>>)

\* General line y = m*x + b with m = dy/dx.  With L2 = dx*dx + dy*dy and
\* h = (y1 - cy)*dx - dy*(x1 - cx) the program's quantities are
\*   D = 4*(L2*r*r - h*h) / (dx*dx),
\*   -B/(2A) = (cx*dx*dx - dy*g) / L2  with g = h - dy*cx,
\*   sqrt(D)/(2A) = |dx| * sqrt(L2*r*r - h*h) / L2,
\* so the tests on D are made on E = L2*r*r - h*h.
CircleLineGeneral(p1, p2, cx, cy, r2) ==
    LET x1 == p1[1]
        y1 == p1[2]
        dx == p2[1] - p1[1]
        dy == p2[2] - p1[2]
        L2 == dx * dx + dy * dy
        h == (y1 - cy) * dx - dy * (x1 - cx)
        g == h - dy * cx
        E == L2 * r2 - h * h
        tol == (dx * dx) \div 40
        mid == cx * dx * dx - dy * g
        root == Abs(dx) * ISqrt(E)
        YofX(x) == FloorDiv(dy * x + (y1 * dx - dy * x1), dx)
        On(x) == Between(x, p1[1], p2[1]) /\ Between(YofX(x), p1[2], p2[2])
        x_t == mid \div L2
        x1_int == (mid + root) \div L2
        x2_int == (mid - root) \div L2
    IN  IF E < 0 /\ -E > tol THEN <<>>
        ELSE IF Abs(E) <= tol
        THEN (IF On(x_t) THEN <<(<<x_t, YofX(x_t)>>)>> ELSE <<>>)
        ELSE (IF On(x1_int) THEN <<(<<x1_int, YofX(x1_int)>>)>> ELSE <<>>)
             \o (IF On(x2_int) THEN <<(<<x2_int, YofX(x2_int)>>)>> ELSE <<>>)

get_circle_line_intersection(line, circle) ==
    LET p1 == line[1]
        p2 == line[2]
        cx == circle.center_x
        cy == circle.center_y
        r2 == circle.radius2
    IN  IF p2[1] - p1[1] = 0 THEN CircleLineVertical(p1, p2, cx, cy, r2)
        ELSE IF p2[2] - p1[2] = 0 THEN CircleLineHorizontal(p1, p2, cx, cy, r2)
        ELSE CircleLineGeneral(p1, p2, cx, cy, r2)

\* get_circle_circle_intersection.  With d2 = d*d, R1 = r1*r1, R2 = r2*r2:
\*   d > r1 + r2     iff  s > 0 and s*s > 4*R1*R2   where s = d2 - R1 - R2
\*   d < |r1 - r2|   iff  s < 0 and s*s > 4*R1*R2
\*   d = r1 + r2 or d = |r1 - r2|   iff  s*s = 4*R1*R2
\* and the two points at angles base_angle + a, base_angle - a are
\*   (x1 + (dx*c - dy*q)/(2*d2), y1 + (dy*c + dx*q)/(2*d2)) and
\*   (x1 + (dx*c + dy*q)/(2*d2), y1 + (dy*c - dx*q)/(2*d2))
\* with c = R1 + d2 - R2 and q = sqrt(4*R1*d2 - c*c).
get_circle_circle_intersection(circle1, circle2) ==
    LET x1 == circle1.center_x
        y1 == circle1.center_y
        R1 == circle1.radius2
        x2 == circle2.center_x
        y2 == circle2.center_y
        R2 == circle2.radius2
        dx == x2 - x1
        dy == y2 - y1
        d2 == dx * dx + dy * dy
        s == d2 - R1 - R2
        P == R1 * R2
        far == s * s > 4 * P
        c == R1 + d2 - R2
        q == ISqrt(4 * R1 * d2 - c * c)
        r1 == ISqrt(R1)
        d == ISqrt(d2)
    IN  IF far /\ s > 0 THEN <<>>
        ELSE IF far /\ s < 0 THEN <<>>
        ELSE IF d2 = 0 /\ R1 = R2 THEN <<>>
        ELSE IF s * s = 4 * P
        THEN <<(<<x1 + FloorDiv(r1 * dx, d), y1 + FloorDiv(r1 * dy, d)>>)>>
        ELSE <<(<<x1 + (dx * c - dy * q) \div (2 * d2), y1 + (dy * c + dx * q) \div (2 * d2)>>),
               (<<x1 + (dx * c + dy * q) \div (2 * d2), y1 + (dy * c - dx * q) \div (2 * d2)>>)>>

RECURSIVE Flatten(_)
Flatten(ss) == IF ss = <<>> THEN <<>> ELSE Head(ss) \o Flatten(Tail(ss))

get_intersection_points(shape1, shape2) ==
    IF shape1.kind = "Circle" /\ shape2.kind \in {"Line", "Rectangle", "Polygon"}
    THEN LET lines == get_shape_lines(shape2)
         IN  Flatten([i \in 1..Len(lines) |-> get_circle_line_intersection(lines[i], shape1)])
    ELSE IF shape1.kind \in {"Line", "Rectangle", "Polygon"} /\ shape2.kind = "Circle"
    THEN LET lines == get_shape_lines(shape1)
         IN  Flatten([i \in 1..Len(lines) |-> get_circle_line_intersection(lines[i], shape2)])
    ELSE IF shape1.kind = "Circle" /\ shape2.kind = "Circle"
    THEN get_circle_circle_intersection(shape1, shape2)
    ELSE LET lines1 == get_shape_lines(shape1)
             lines2 == get_shape_lines(shape2)
         IN  Flatten([k \in 1..(Len(lines1) * Len(lines2)) |->
                 get_line_line_intersection(lines1[((k - 1) \div Len(lines2)) + 1],
                                            lines2[((k - 1) % Len(lines2)) + 1])])

-----------------------------------------------------------------------------
(* Snap *)

MidPoint(p, q) == <<(p[1] + q[1]) \div 2, (p[2] + q[2]) \div 2>>

EdgeMidPoints(pts) == [i \in 1..Len(pts) |-> MidPoint(pts[i], pts[(i % Len(pts)) + 1])]

\* the end points and mid points one shape contributes, in the order the
\* program appends them
ShapeSnapPoints(s, types) ==
    IF s.kind = "Line"
    THEN (IF types.endpoint THEN <<(<<s.x1, s.y1>>), (<<s.x2, s.y2>>)>> ELSE <<>>)
         \o (IF types.midpoint THEN <<MidPoint(<<s.x1, s.y1>>, <<s.x2, s.y2>>)>> ELSE <<>>)
    ELSE IF s.kind = "Rectangle"
    THEN LET points == RectPoints(s.x1, s.y1, s.x2, s.y2)
         IN  (IF types.endpoint THEN points ELSE <<>>)
             \o (IF types.midpoint THEN EdgeMidPoints(points) ELSE <<>>)
    ELSE IF s.kind = "Circle"
    THEN (IF types.endpoint THEN <<(<<s.center_x, s.center_y>>)>> ELSE <<>>)
    ELSE IF s.kind = "Polygon"
    THEN (IF types.endpoint THEN s.points ELSE <<>>)
         \o (IF types.midpoint THEN EdgeMidPoints(s.points) ELSE <<>>)
    ELSE <<>>

\* the pairs (i, j), i < j, of positions of a list of length n, in loop order
RECURSIVE PairsFrom(_, _, _)
PairsFrom(i, j, n) ==
    IF i >= n THEN <<>>
    ELSE IF j > n THEN PairsFrom(i + 1, i + 2, n)
    ELSE <<(<<i, j>>)>> \o PairsFrom(i, j + 1, n)

\* all snap candidates of the canvas, in the order get_snap_point collects them
SnapPoints(c) ==
    LET n == Len(c.shapes)
        sh(i) == c.objs[c.shapes[i]]
        pairs == PairsFrom(1, 2, n)
    IN  Flatten([i \in 1..n |-> ShapeSnapPoints(sh(i), c.snap_types)])
        \o (IF c.snap_types.intersection
            THEN Flatten([k \in 1..Len(pairs) |->
                     get_intersection_points(sh(pairs[k][1]), sh(pairs[k][2]))])
            ELSE <<>>)

\* get_snap_point raises IndexError when the intersection search reaches a
\* Rectangle whose points list is too short
SnapRaises(c) ==
    /\ c.snap_enabled
    /\ c.snap_types.intersection
    /\ Len(c.shapes) >= 2
    /\ \E i \in 1..Len(c.shapes) : ShapeLinesRaise(c.objs[c.shapes[i]])

\* a search that passes over the candidate the pointer is on
NearestSnapElsewhere(snap_points, x, y) ==
    LET away == SelectSeq(snap_points, LAMBDA q : q # <<x, y>>)
        near == {i \in 1..Len(away) :
                    Dist2(away[i], <<x, y>>) <= snap_distance * snap_distance}
        best == CHOOSE i \in near :
                    \A j \in near :
                        \/ Dist2(away[i], <<x, y>>) < Dist2(away[j], <<x, y>>)
                        \/ /\ Dist2(away[i], <<x, y>>) = Dist2(away[j], <<x, y>>)
                           /\ i <= j
    IN  IF near = {} THEN <<x, y>> ELSE away[best]

\* the first candidate at the least distance, when that distance is at most
\* snap_distance; distances are compared through their squares
NearestSnap(snap_points, x, y) ==
    LET near == {i \in 1..Len(snap_points) :
                    Dist2(snap_points[i], <<x, y>>) <= snap_distance * snap_distance}
        best == CHOOSE i \in near :
                    \A j \in near :
                        \/ Dist2(snap_points[i], <<x, y>>) < Dist2(snap_points[j], <<x, y>>)
                        \/ /\ Dist2(snap_points[i], <<x, y>>) = Dist2(snap_points[j], <<x, y>>)
                           /\ i <= j
    IN  IF near = {} THEN <<x, y>> ELSE snap_points[best]

get_snap_point(c, x, y) ==
    IF ~c.snap_enabled THEN <<x, y>> ELSE NearestSnap(SnapPoints(c), x, y)

-----------------------------------------------------------------------------
(* The canvas *)

Entry == [type |-> "", shape |-> 0, shapes |-> <<>>, indices |-> <<>>,
          property |-> "", old_value |-> "", new_value |-> "",
          original_position |-> <<>>, new_position |-> <<>>]

AddShapeEntry(id) == [Entry EXCEPT !.type = "add_shape", !.shape = id]

\* DrawingCanvas.__init__
InitCanvas ==
    [shapes |-> <<>>, objs |-> <<>>, current_points |-> <<>>, mode |-> "line",
     current_color |-> "black", current_width |-> "1", current_style |-> "None",
     selected_shapes |-> <<>>, selected_endpoint |-> None,
     is_moving |-> FALSE, is_resizing |-> FALSE, resize_handle |-> "None",
     last_x |-> None, last_y |-> None,
     undo_stack |-> <<>>, redo_stack |-> <<>>,
     snap_enabled |-> TRUE,
     snap_types |-> [endpoint |-> TRUE, midpoint |-> TRUE, intersection |-> TRUE],
     exc |-> ""]

Raise(c, name) == [c EXCEPT !.exc = name]

HandleNames == <<"nw", "n", "ne", "e", "se", "s", "sw", "w">>

\* get_resize_handles: the handle positions of the first selected shape,
\* doubled so that the edge mid points stay whole numbers
Handles2(rect) ==
    [nw |-> <<2 * rect.x1, 2 * rect.y1>>,
     n  |-> <<2 * rect.x1 + (rect.x2 - rect.x1), 2 * rect.y1>>,
     ne |-> <<2 * rect.x2, 2 * rect.y1>>,
     e  |-> <<2 * rect.x2, 2 * rect.y1 + (rect.y2 - rect.y1)>>,
     se |-> <<2 * rect.x2, 2 * rect.y2>>,
     s  |-> <<2 * rect.x1 + (rect.x2 - rect.x1), 2 * rect.y2>>,
     sw |-> <<2 * rect.x1, 2 * rect.y2>>,
     w  |-> <<2 * rect.x1, 2 * rect.y1 + (rect.y2 - rect.y1)>>]

\* get_resize_handle_at_point: the first handle within 5 px on both axes
get_resize_handle_at_point(c, x, y) ==
    IF c.selected_shapes = <<>> THEN "None"
    ELSE LET first == c.objs[c.selected_shapes[1]]
         IN  IF first.kind # "Rectangle" THEN "None"
             ELSE LET hs == Handles2(first)
                      hit == {i \in 1..Len(HandleNames) :
                                 /\ Abs(2 * x - hs[HandleNames[i]][1]) <= 2 * HANDLE_TOL
                                 /\ Abs(2 * y - hs[HandleNames[i]][2]) <= 2 * HANDLE_TOL}
                  IN  IF hit = {} THEN "None"
                      ELSE HandleNames[CHOOSE i \in hit : \A j \in hit : i <= j]

\* the shape a two-point gesture of the mode commits
NewShape(c, p1, p2) ==
    IF c.mode = "line"
    THEN Line(p1[1], p1[2], p2[1], p2[2], c.current_color, c.current_width, c.current_style)
    ELSE IF c.mode = "rectangle"
    THEN Rectangle(p1[1], p1[2], p2[1], p2[2], c.current_color, c.current_width, c.current_style)
    ELSE Circle(p1[1], p1[2], p2[1], p2[2], c.current_color, c.current_width, c.current_style)

\* shapes.append(shape); undo_stack.append(add_shape); redo_stack.clear();
\* current_points = []
Commit(c, shape) ==
    LET id == Len(c.objs) + 1
    IN  [c EXCEPT !.objs = Append(@, shape),
                  !.shapes = Append(@, id),
                  !.undo_stack = Append(@, AddShapeEntry(id)),
                  !.redo_stack = <<>>,
                  !.current_points = <<>>]

\* on_click once the snap position and the handle under the pointer are known
ClickAt(c, snap, handle, x, y) ==
    IF /\ c.selected_shapes # <<>>
       /\ c.objs[c.selected_shapes[1]].kind = "Rectangle"
       /\ handle # "None"
    THEN [c EXCEPT !.is_resizing = TRUE, !.resize_handle = handle,
                   !.last_x = Some(x), !.last_y = Some(y)]
    ELSE IF c.mode \in {"line", "rectangle", "circle"}
    THEN (IF c.current_points = <<>>
          THEN [c EXCEPT !.current_points = <<snap>>]
          ELSE Commit(c, NewShape(c, c.current_points[1], snap)))
    ELSE IF c.mode = "polygon"
    THEN [c EXCEPT !.current_points = Append(@, snap)]
    ELSE c

\* DrawingCanvas.on_click
on_click(c0, x, y) ==
    IF SnapRaises(c0) THEN Raise(c0, "IndexError")
    ELSE ClickAt([c0 EXCEPT !.exc = ""], get_snap_point(c0, x, y),
                 get_resize_handle_at_point(c0, x, y), x, y)

\* DrawingCanvas.complete_shape
complete_shape(c) ==
    IF c.current_points = <<>> THEN c
    ELSE IF c.mode \in {"line", "rectangle", "circle"} /\ Len(c.current_points) = 2
    THEN Commit(c, NewShape(c, c.current_points[1], c.current_points[2]))
    ELSE IF c.mode = "polygon" /\ Len(c.current_points) >= 3
    THEN Commit(c, Polygon(c.current_points, c.current_color, c.current_width, c.current_style))
    ELSE [c EXCEPT !.current_points = <<>>]

\* on_right_click completing a polygon from two points on
on_right_click_from_two(c0) ==
    IF c0.mode = "polygon" /\ Len(c0.current_points) >= 2
    THEN complete_shape([c0 EXCEPT !.exc = ""])
    ELSE [c0 EXCEPT !.exc = ""]

\* DrawingCanvas.on_right_click
on_right_click(c0) ==
    LET c == [c0 EXCEPT !.exc = ""]
    IN  IF c.mode = "polygon" /\ Len(c.current_points) >= 3
        THEN complete_shape(c)
        ELSE c

\* DrawingCanvas.on_motion: the temporary point is appended and popped again
on_motion(c0, x, y) ==
    LET c == [c0 EXCEPT !.exc = ""]
    IN  IF SnapRaises(c) THEN Raise(c, "IndexError") ELSE c

\* DrawingCanvas.update_preview: the preview items it draws, each as the
\* pair of points it is drawn between; mouse is None or Some(<<x, y>>)
update_preview(c, mouse) ==
    LET pts == c.current_points
    IN  IF pts = <<>> THEN <<>>
        ELSE IF c.mode \in {"line", "rectangle", "circle"}
        THEN (IF Len(pts) = 2 THEN <<(<<pts[1], pts[2]>>)>> ELSE <<>>)
        ELSE IF c.mode = "polygon"
        THEN [i \in 1..(Len(pts) - 1) |-> <<pts[i], pts[i + 1]>>]
             \o (IF mouse # None THEN <<(<<pts[Len(pts)], mouse[1]>>)>> ELSE <<>>)
             \o (IF /\ Len(pts) >= 3
                    /\ mouse # None
                    /\ (Len(pts) > 3 \/ mouse[1] # pts[Len(pts)])
                 THEN <<(<<mouse[1], pts[1]>>)>> ELSE <<>>)
        ELSE <<>>

\* the preview on_motion draws at (x, y): the snap position is appended to
\* current_points for the call of update_preview(event.x, event.y)
motion_preview(c, x, y) ==
    IF c.current_points = <<>> THEN <<>>
    ELSE IF \/ c.mode \in {"line", "rectangle", "circle"} /\ Len(c.current_points) = 1
            \/ c.mode = "polygon"
    THEN update_preview([c EXCEPT !.current_points = Append(@, get_snap_point(c, x, y))],
                        Some(<<x, y>>))
    ELSE <<>>

\* DrawingApp.toggle_snap
toggle_snap(c0) == [c0 EXCEPT !.exc = "", !.snap_enabled = ~@]

\* DrawingApp.toggle_snap_type
toggle_snap_type(c0, snap_type) ==
    [c0 EXCEPT !.exc = "", !.snap_types[snap_type] = ~@]

\* DrawingCanvas.reset
reset(c0) == [c0 EXCEPT !.exc = "", !.shapes = <<>>, !.current_points = <<>>]

\* DrawingCanvas.on_escape
on_escape(c0) == [c0 EXCEPT !.exc = "", !.current_points = <<>>]

\* a setter of mode that only ends a resize
set_mode_keeps_selection(c0, value) ==
    [c0 EXCEPT !.exc = "", !.mode = value, !.is_moving = FALSE,
               !.is_resizing = FALSE, !.resize_handle = "None"]

\* the setter of DrawingCanvas.mode
set_mode(c0, value) ==
    [c0 EXCEPT !.exc = "", !.mode = value, !.selected_shapes = <<>>,
               !.selected_endpoint = None, !.is_moving = FALSE,
               !.is_resizing = FALSE, !.resize_handle = "None"]

\* push_property_change without redo_stack.clear()
push_property_change_keeps_redo(c, property_name, old_value, new_value) ==
    [c EXCEPT !.undo_stack = Append(@, [Entry EXCEPT !.type = "change_property",
                                                     !.property = property_name,
                                                     !.old_value = old_value,
                                                     !.new_value = new_value])]

\* DrawingCanvas.push_property_change
push_property_change(c, property_name, old_value, new_value) ==
    [c EXCEPT !.undo_stack = Append(@, [Entry EXCEPT !.type = "change_property",
                                                     !.property = property_name,
                                                     !.old_value = old_value,
                                                     !.new_value = new_value]),
              !.redo_stack = <<>>]

\* DrawingCanvas.set_color
set_color(c0, color) ==
    LET c == [c0 EXCEPT !.exc = ""]
    IN  push_property_change([c EXCEPT !.current_color = color],
                             "current_color", c.current_color, color)

\* DrawingCanvas.set_width
set_width(c0, width) ==
    LET c == [c0 EXCEPT !.exc = ""]
    IN  push_property_change([c EXCEPT !.current_width = width],
                             "current_width", c.current_width, width)

\* DrawingCanvas.set_style
set_style(c0, style) ==
    LET c == [c0 EXCEPT !.exc = ""]
    IN  push_property_change([c EXCEPT !.current_style = style],
                             "current_style", c.current_style, style)

-----------------------------------------------------------------------------
(* Selection *)

\* distance_to_line(point, a, b) < tol, compared through squares: the
\* projection parameter t = dot / l2 is clamped to [0, 1]
NearSegment(p, a, b, tol) ==
    LET dx == b[1] - a[1]
        dy == b[2] - a[2]
        l2 == dx * dx + dy * dy
        dot == (p[1] - a[1]) * dx + (p[2] - a[2]) * dy
        cross == (p[1] - a[1]) * dy - (p[2] - a[2]) * dx
    IN  IF l2 = 0 THEN Dist2(p, a) < tol * tol
        ELSE IF dot <= 0 THEN Dist2(p, a) < tol * tol
        ELSE IF dot >= l2 THEN Dist2(p, b) < tol * tol
        ELSE cross * cross < tol * tol * l2

\* the test on_select makes on one shape: <<>> for a miss, else <<e>> where e
\* is the selected_endpoint the hit leaves (None, 0 or 1)
SelectHit(s, x, y) ==
    IF s.kind = "Rectangle"
    THEN LET pts == RectPoints(s.x1, s.y1, s.x2, s.y2)
         IN  IF \E i \in 1..4 : NearSegment(<<x, y>>, pts[i], pts[(i % 4) + 1], SELECT_TOL)
             THEN <<None>> ELSE <<>>
    ELSE IF s.kind = "Line"
    THEN IF Abs(x - s.x1) < SELECT_TOL /\ Abs(y - s.y1) < SELECT_TOL THEN <<Some(0)>>
         ELSE IF Abs(x - s.x2) < SELECT_TOL /\ Abs(y - s.y2) < SELECT_TOL THEN <<Some(1)>>
         ELSE IF NearSegment(<<x, y>>, <<s.x1, s.y1>>, <<s.x2, s.y2>>, SELECT_TOL)
         THEN <<None>> ELSE <<>>
    ELSE IF s.kind = "Circle"
    THEN IF Dist2(<<x, y>>, <<s.center_x, s.center_y>>)
              <= Dist2(<<s.x2, s.y2>>, <<s.center_x, s.center_y>>)
         THEN <<None>> ELSE <<>>
    ELSE <<>>

\* DrawingCanvas.on_select: the last shape of the list that is hit
on_select(c0, x, y) ==
    LET c == [c0 EXCEPT !.exc = ""]
        hits == {i \in 1..Len(c.shapes) : SelectHit(c.objs[c.shapes[i]], x, y) # <<>>}
        top == CHOOSE i \in hits : \A j \in hits : j <= i
    IN  IF hits = {}
        THEN [c EXCEPT !.selected_shapes = <<>>, !.selected_endpoint = None]
        ELSE [c EXCEPT !.selected_shapes = <<c.shapes[top]>>,
                       !.selected_endpoint = SelectHit(c.objs[c.shapes[top]], x, y)[1]]

\* DrawingCanvas.select_all
select_all(c0) ==
    LET c == [c0 EXCEPT !.exc = ""]
        Mark(o, flag) == [o EXCEPT !.is_selected = flag, !.attrs = @ \cup {"is_selected"}]
        cleared == [i \in 1..Len(c.objs) |->
                       IF Contains(c.selected_shapes, i) THEN Mark(c.objs[i], FALSE)
                       ELSE c.objs[i]]
        marked == [i \in 1..Len(c.objs) |->
                      IF Contains(c.shapes, i) THEN Mark(cleared[i], TRUE)
                      ELSE cleared[i]]
    IN  IF c.shapes = <<>> THEN c
        ELSE [c EXCEPT !.objs = marked, !.selected_shapes = c.shapes]

-----------------------------------------------------------------------------
(* Moving and resizing *)

\* the statements  shape.f += d  for the pairs <<f, d>> of incs, in order,
\* stopping at the first attribute the object does not have
RECURSIVE IncAttrs(_, _)
IncAttrs(o, incs) ==
    IF incs = <<>> THEN [o |-> o, ok |-> TRUE]
    ELSE IF Head(incs)[1] \notin o.attrs THEN [o |-> o, ok |-> FALSE]
    ELSE IncAttrs([o EXCEPT ![Head(incs)[1]] = @ + Head(incs)[2]], Tail(incs))

\* the statements  shape.f = v  for the pairs <<f, v>> of sets
RECURSIVE SetAttrs(_, _)
SetAttrs(o, sets) ==
    IF sets = <<>> THEN o
    ELSE SetAttrs([o EXCEPT ![Head(sets)[1]] = Head(sets)[2],
                            !.attrs = @ \cup {Head(sets)[1]}], Tail(sets))

\* the body of the loop of move_shape, for the branch chosen by `kind`
MoveOne(o, kind, dx, dy) ==
    IF kind = "Rectangle"
    THEN LET r == IncAttrs(o, <<(<<"x1", dx>>), (<<"y1", dy>>), (<<"x2", dx>>), (<<"y2", dy>>)>>)
         IN  IF r.ok THEN [o |-> [r.o EXCEPT !.points = RectPoints(r.o.x1, r.o.y1, r.o.x2, r.o.y2)],
                           ok |-> TRUE]
             ELSE r
    ELSE IF kind = "Line"
    THEN LET r == IncAttrs(o, <<(<<"x1", dx>>), (<<"y1", dy>>), (<<"x2", dx>>), (<<"y2", dy>>)>>)
         IN  IF r.ok THEN [o |-> [r.o EXCEPT !.points = <<(<<r.o.x1, r.o.y1>>), (<<r.o.x2, r.o.y2>>)>>],
                           ok |-> TRUE]
             ELSE r
    ELSE IF kind = "Circle"
    THEN LET r == IncAttrs(o, <<(<<"center_x", dx>>), (<<"center_y", dy>>), (<<"x2", dx>>), (<<"y2", dy>>)>>)
         IN  IF r.ok THEN [o |-> [r.o EXCEPT !.points = <<(<<r.o.center_x, r.o.center_y>>),
                                                          (<<r.o.x2, r.o.y2>>)>>],
                           ok |-> TRUE]
             ELSE r
    ELSE IF kind = "Polygon"
    THEN [o |-> [o EXCEPT !.points = [i \in 1..Len(o.points) |->
                                         <<o.points[i][1] + dx, o.points[i][2] + dy>>]],
          ok |-> TRUE]
    ELSE [o |-> o, ok |-> TRUE]

\* the loop bodies of move_shape, resize_shape and on_drag, by name:
\* each gives the object after the body and whether the body completed
LoopBody(o, cmd) ==
    IF cmd.do = "move" THEN MoveOne(o, cmd.kind, cmd.dx, cmd.dy)
    ELSE IF cmd.do = "set" THEN [o |-> SetAttrs(o, cmd.sets), ok |-> TRUE]
    ELSE IF cmd.do = "corners"
    THEN (IF LineAttrs \subseteq o.attrs
          THEN [o |-> [o EXCEPT !.points = RectPoints(o.x1, o.y1, o.x2, o.y2)], ok |-> TRUE]
          ELSE [o |-> o, ok |-> FALSE])
    ELSE (IF LineAttrs \subseteq o.attrs
          THEN [o |-> [o EXCEPT !.points = <<(<<o.x1, o.y1>>), (<<o.x2, o.y2>>)>>], ok |-> TRUE]
          ELSE [o |-> o, ok |-> FALSE])

\* a loop  for shape in ids: body  over the heap, stopping at the first
\* body that raises
RECURSIVE ForEach(_, _, _)
ForEach(objs, ids, cmd) ==
    IF ids = <<>> THEN [objs |-> objs, ok |-> TRUE]
    ELSE LET r == LoopBody(objs[Head(ids)], cmd)
             nobjs == [objs EXCEPT ![Head(ids)] = r.o]
         IN  IF r.ok THEN ForEach(nobjs, Tail(ids), cmd)
             ELSE [objs |-> nobjs, ok |-> FALSE]

\* DrawingCanvas.move_shape: the branch is chosen by the first selected shape
move_shape(c, dx, dy) ==
    IF c.selected_shapes = <<>> THEN c
    ELSE LET kind == c.objs[c.selected_shapes[1]].kind
             r == ForEach(c.objs, c.selected_shapes,
                          [do |-> "move", kind |-> kind, dx |-> dx, dy |-> dy])
         IN  [c EXCEPT !.objs = r.objs,
                       !.exc = IF r.ok THEN c.exc ELSE "AttributeError"]

HasChar(handle, ch) ==
    IF ch = "n" THEN handle \in {"nw", "n", "ne"}
    ELSE IF ch = "s" THEN handle \in {"se", "s", "sw"}
    ELSE IF ch = "w" THEN handle \in {"nw", "sw", "w"}
    ELSE handle \in {"ne", "e", "se"}

\* the handle assignments with the letters n and s exchanged
HandleSetsFlipped(handle, snap) ==
    (IF HasChar(handle, "n") THEN <<(<<"y2", snap[2]>>)>> ELSE <<>>)
    \o (IF HasChar(handle, "s") THEN <<(<<"y1", snap[2]>>)>> ELSE <<>>)
    \o (IF HasChar(handle, "w") THEN <<(<<"x1", snap[1]>>)>> ELSE <<>>)
    \o (IF HasChar(handle, "e") THEN <<(<<"x2", snap[1]>>)>> ELSE <<>>)

\* the coordinates the handle assigns from the snap position
HandleSets(handle, snap) ==
    (IF HasChar(handle, "n") THEN <<(<<"y1", snap[2]>>)>> ELSE <<>>)
    \o (IF HasChar(handle, "s") THEN <<(<<"y2", snap[2]>>)>> ELSE <<>>)
    \o (IF HasChar(handle, "w") THEN <<(<<"x1", snap[1]>>)>> ELSE <<>>)
    \o (IF HasChar(handle, "e") THEN <<(<<"x2", snap[1]>>)>> ELSE <<>>)

\* the size test of resize_shape on the heap `applied` the assignments left:
\* too small restores the old coordinates of the first shape in every
\* selected shape, else the points lists are rebuilt
FinishResize(c, applied, old) ==
    IF \/ Abs(applied[c.selected_shapes[1]].x2 - applied[c.selected_shapes[1]].x1) < MIN_SIZE
       \/ Abs(applied[c.selected_shapes[1]].y2 - applied[c.selected_shapes[1]].y1) < MIN_SIZE
    THEN [c EXCEPT !.objs = ForEach(applied, c.selected_shapes,
                                    [do |-> "set",
                                     sets |-> <<(<<"x1", old.x1>>), (<<"y1", old.y1>>),
                                                (<<"x2", old.x2>>), (<<"y2", old.y2>>)>>]).objs]
    ELSE LET done == ForEach(applied, c.selected_shapes, [do |-> "corners"])
         IN  [c EXCEPT !.objs = done.objs,
                       !.exc = IF done.ok THEN c.exc ELSE "AttributeError"]

\* DrawingCanvas.resize_shape: reading x1 .. y2 of the first selected shape
\* raises when it has none, the snap search can raise, and  "n" in None
\* raises when no handle is remembered
resize_shape(c, x, y) ==
    IF c.selected_shapes = <<>> THEN c
    ELSE IF ~(LineAttrs \subseteq c.objs[c.selected_shapes[1]].attrs)
    THEN Raise(c, "AttributeError")
    ELSE IF SnapRaises(c) THEN Raise(c, "IndexError")
    ELSE IF c.resize_handle = "None" THEN Raise(c, "TypeError")
    ELSE FinishResize(c,
                      ForEach(c.objs, c.selected_shapes,
                              [do |-> "set",
                               sets |-> HandleSets(c.resize_handle,
                                                   get_snap_point(c, x, y))]).objs,
                      c.objs[c.selected_shapes[1]])

\* the end-point branch of on_drag taking both ends to the pointer
MoveEndpointBoth(c, x, y) ==
    LET sets == <<(<<"x1", x>>), (<<"y1", y>>), (<<"x2", x>>), (<<"y2", y>>)>>
        applied == ForEach(c.objs, c.selected_shapes, [do |-> "set", sets |-> sets]).objs
        done == ForEach(applied, c.selected_shapes, [do |-> "ends"])
    IN  [c EXCEPT !.objs = done.objs]

\* the end-point branch of on_drag: the raw pointer position is assigned
MoveEndpoint(c, x, y) ==
    LET sets == IF c.selected_endpoint = Some(0)
                THEN <<(<<"x1", x>>), (<<"y1", y>>)>>
                ELSE <<(<<"x2", x>>), (<<"y2", y>>)>>
        applied == ForEach(c.objs, c.selected_shapes, [do |-> "set", sets |-> sets]).objs
        done == ForEach(applied, c.selected_shapes, [do |-> "ends"])
    IN  [c EXCEPT !.objs = done.objs,
                  !.exc = IF done.ok THEN c.exc ELSE "AttributeError"]

\* the branch of on_drag taken when a previous pointer position is known
DragBranch(c, x, y) ==
    IF c.last_x # None /\ c.last_y # None
    THEN IF c.is_resizing /\ c.objs[c.selected_shapes[1]].kind = "Rectangle"
         THEN resize_shape(c, x, y)
         ELSE IF c.objs[c.selected_shapes[1]].kind = "Line" /\ c.selected_endpoint # None
         THEN MoveEndpoint(c, x, y)
         ELSE move_shape(c, x - c.last_x[1], y - c.last_y[1])
    ELSE c

\* the end of on_drag: the pointer position is kept unless the branch raised
KeepPointer(acted, x, y) ==
    IF acted.exc # "" THEN acted
    ELSE [acted EXCEPT !.last_x = Some(x), !.last_y = Some(y)]

\* DrawingCanvas.on_drag
on_drag(c0, x, y) ==
    IF c0.selected_shapes = <<>> THEN [c0 EXCEPT !.exc = ""]
    ELSE KeepPointer(DragBranch([c0 EXCEPT !.exc = ""], x, y), x, y)

\* on_release keeping the remembered pointer position
on_release_keeps_pointer(c0) ==
    [c0 EXCEPT !.exc = "", !.is_moving = FALSE, !.is_resizing = FALSE,
               !.resize_handle = "None"]

\* DrawingCanvas.on_release
on_release(c0) ==
    [c0 EXCEPT !.exc = "", !.is_moving = FALSE, !.is_resizing = FALSE,
               !.resize_handle = "None", !.last_x = None, !.last_y = None]

-----------------------------------------------------------------------------
(* Undo and redo *)

\* the loop of undo over zip(indices, shapes): insert at the recorded index
\* when it is inside the list, append otherwise
RECURSIVE Reinsert(_, _, _)
Reinsert(shapes, indices, ids) ==
    IF indices = <<>> \/ ids = <<>> THEN shapes
    ELSE Reinsert(IF Head(indices) < Len(shapes)
                  THEN ListInsert(shapes, Head(indices), Head(ids))
                  ELSE Append(shapes, Head(ids)),
                  Tail(indices), Tail(ids))

\* the loop of redo and of delete_selected: remove each listed shape that
\* is in the list
RECURSIVE RemoveEach(_, _)
RemoveEach(shapes, ids) ==
    IF ids = <<>> THEN shapes
    ELSE RemoveEach(IF Contains(shapes, Head(ids)) THEN ListRemove(shapes, Head(ids))
                    ELSE shapes,
                    Tail(ids))

\* DrawingCanvas.move_shape_by
move_shape_by(c, id, dx, dy) ==
    LET o == c.objs[id]
    IN  IF o.kind \in {"Rectangle", "Line", "Circle", "Polygon"}
        THEN LET r == MoveOne(o, o.kind, dx, dy)
             IN  [c EXCEPT !.objs[id] = r.o]
        ELSE c

\* setattr that sets nothing but the color
SetColorOnly(c, property, value) ==
    IF property = "current_color" THEN [c EXCEPT !.current_color = value]
    ELSE c

\* setattr(self, property, value)
SetProperty(c, property, value) ==
    IF property = "current_color" THEN [c EXCEPT !.current_color = value]
    ELSE IF property = "current_width" THEN [c EXCEPT !.current_width = value]
    ELSE IF property = "current_style" THEN [c EXCEPT !.current_style = value]
    ELSE c

\* the assignment of a recorded position <<x1, y1, x2, y2>> by undo and redo
SetPosition(c, id, pos) ==
    [c EXCEPT !.objs[id] =
        [SetAttrs(@, <<(<<"x1", pos[1]>>), (<<"y1", pos[2]>>),
                       (<<"x2", pos[3]>>), (<<"y2", pos[4]>>)>>)
            EXCEPT !.points = RectPoints(pos[1], pos[2], pos[3], pos[4])]]

\* undo that applies the inverse of an add_shape entry and drops the entry
undo_drops_entry(c0) ==
    LET c == [c0 EXCEPT !.exc = ""]
        operation == c.undo_stack[Len(c.undo_stack)]
        m == [c EXCEPT !.undo_stack = SubSeq(@, 1, Len(@) - 1)]
    IN  IF c.undo_stack = <<>> THEN c
        ELSE IF operation.type = "add_shape" /\ Contains(m.shapes, operation.shape)
        THEN [m EXCEPT !.shapes = ListRemove(@, operation.shape)]
        ELSE m

\* DrawingCanvas.undo: the entry moves to the redo stack before it is applied
undo(c0) ==
    LET c == [c0 EXCEPT !.exc = ""]
        operation == c.undo_stack[Len(c.undo_stack)]
        m == [c EXCEPT !.undo_stack = SubSeq(@, 1, Len(@) - 1),
                       !.redo_stack = Append(@, operation)]
    IN  IF c.undo_stack = <<>> THEN c
        ELSE IF operation.type = "add_shape"
        THEN (IF Contains(m.shapes, operation.shape)
              THEN [m EXCEPT !.shapes = ListRemove(@, operation.shape)]
              ELSE Raise(m, "ValueError"))
        ELSE IF operation.type = "delete_shape"
        THEN [m EXCEPT !.shapes = Append(@, operation.shape)]
        ELSE IF operation.type = "delete_shapes"
        THEN [m EXCEPT !.shapes = Reinsert(@, operation.indices, operation.shapes)]
        ELSE IF operation.type = "move_shape"
        THEN (IF "x1" \in m.objs[operation.shape].attrs
              THEN move_shape_by(m, operation.shape,
                                 operation.original_position[1] - m.objs[operation.shape].x1,
                                 operation.original_position[2] - m.objs[operation.shape].y1)
              ELSE Raise(m, "AttributeError"))
        ELSE IF operation.type = "resize_shape"
        THEN SetPosition(m, operation.shape, operation.original_position)
        ELSE IF operation.type = "change_property"
        THEN SetProperty(m, operation.property, operation.old_value)
        ELSE m

\* the shape put in front of the list
RedoAddShapeInFront(shapes, id) == <<id>> \o shapes

\* redo of add_shape: self.shapes.append(shape)
RedoAddShape(shapes, id) == Append(shapes, id)

\* DrawingCanvas.redo
redo(c0) ==
    LET c == [c0 EXCEPT !.exc = ""]
        operation == c.redo_stack[Len(c.redo_stack)]
        m == [c EXCEPT !.redo_stack = SubSeq(@, 1, Len(@) - 1),
                       !.undo_stack = Append(@, operation)]
    IN  IF c.redo_stack = <<>> THEN c
        ELSE IF operation.type = "add_shape"
        THEN [m EXCEPT !.shapes = RedoAddShape(@, operation.shape)]
        ELSE IF operation.type = "delete_shape"
        THEN (IF Contains(m.shapes, operation.shape)
              THEN [m EXCEPT !.shapes = ListRemove(@, operation.shape)]
              ELSE Raise(m, "ValueError"))
        ELSE IF operation.type = "delete_shapes"
        THEN [m EXCEPT !.shapes = RemoveEach(@, operation.shapes)]
        ELSE IF operation.type = "move_shape"
        THEN (IF "x1" \in m.objs[operation.shape].attrs
              THEN move_shape_by(m, operation.shape,
                                 operation.new_position[1] - m.objs[operation.shape].x1,
                                 operation.new_position[2] - m.objs[operation.shape].y1)
              ELSE Raise(m, "AttributeError"))
        ELSE IF operation.type = "resize_shape"
        THEN SetPosition(m, operation.shape, operation.new_position)
        ELSE IF operation.type = "change_property"
        THEN SetProperty(m, operation.property, operation.new_value)
        ELSE m

\* DrawingCanvas.push_state: only clears the redo stack
push_state(c) == [c EXCEPT !.redo_stack = <<>>]

\* the copy duplicate_selected makes of one shape
Duplicate(o) ==
    IF o.kind = "Rectangle"
    THEN Rectangle(o.x1 + DUP_OFFSET, o.y1 + DUP_OFFSET, o.x2 + DUP_OFFSET, o.y2 + DUP_OFFSET,
                   o.color, o.width, o.style)
    ELSE IF o.kind = "Line"
    THEN Line(o.x1 + DUP_OFFSET, o.y1 + DUP_OFFSET, o.x2 + DUP_OFFSET, o.y2 + DUP_OFFSET,
              o.color, o.width, o.style)
    ELSE IF o.kind = "Circle"
    THEN Circle(o.center_x + DUP_OFFSET, o.center_y + DUP_OFFSET,
                o.center_x + DUP_OFFSET + ISqrt(o.radius2), o.center_y + DUP_OFFSET,
                o.color, o.width, o.style)
    ELSE Polygon([i \in 1..Len(o.points) |->
                     <<o.points[i][1] + DUP_OFFSET, o.points[i][2] + DUP_OFFSET>>],
                 o.color, o.width, o.style)

\* DrawingCanvas.duplicate_selected
duplicate_selected(c0) ==
    LET c == [c0 EXCEPT !.exc = ""]
        selected == c.selected_shapes
        k == Len(selected)
        n == Len(c.objs)
        new_shapes == [i \in 1..k |-> n + i]
    IN  IF selected = <<>> THEN c
        ELSE [push_state(c) EXCEPT
                 !.objs = @ \o [i \in 1..k |-> Duplicate(c.objs[selected[i]])],
                 !.shapes = @ \o new_shapes,
                 !.selected_shapes = new_shapes]

\* DrawingCanvas.delete_selected: shapes.index raises ValueError for a
\* selected shape that is not in shapes, before anything is changed
delete_selected(c0) ==
    LET c == [c0 EXCEPT !.exc = ""]
        deleted_shapes == c.selected_shapes
        deleted_indices == [i \in 1..Len(deleted_shapes) |->
                               IndexOf(c.shapes, deleted_shapes[i]) - 1]
    IN  IF c.selected_shapes = <<>> THEN c
        ELSE IF \E i \in 1..Len(deleted_shapes) : ~Contains(c.shapes, deleted_shapes[i])
        THEN Raise(c, "ValueError")
        ELSE [c EXCEPT !.undo_stack = Append(@, [Entry EXCEPT !.type = "delete_shapes",
                                                              !.shapes = deleted_shapes,
                                                              !.indices = deleted_indices]),
                       !.shapes = RemoveEach(@, deleted_shapes),
                       !.selected_shapes = <<>>,
                       !.redo_stack = <<>>]

\* a <KeyPress> event: its keysym and its modifier state
KeyEvent(keysym, state) == [keysym |-> keysym, state |-> state]

CONTROL_MASK == 4

\* event.state & 0x4
CtrlPressed(event) == (event.state \div CONTROL_MASK) % 2 = 1

\* str.lower on the keysyms used here
Lower(keysym) ==
    IF keysym = "Z" THEN "z"
    ELSE IF keysym = "D" THEN "d"
    ELSE IF keysym = "Delete" THEN "delete"
    ELSE keysym

\* the operation handle_keyboard_event picks for an event, "" when none
KeyOperation(event) ==
    IF CtrlPressed(event) /\ Lower(event.keysym) = "z" THEN "undo"
    ELSE IF CtrlPressed(event) /\ Lower(event.keysym) = "y" THEN "redo"
    ELSE IF CtrlPressed(event) /\ Lower(event.keysym) = "a" THEN "select_all"
    ELSE IF CtrlPressed(event) /\ Lower(event.keysym) = "d" THEN "duplicate_selected"
    ELSE IF event.keysym = "Delete" THEN "delete_selected"
    ELSE ""

\* DrawingCanvas.handle_keyboard_event: the canvas after the call, the calls
\* made in order and the value returned.  An exception of the operation is
\* caught and logged, and the handler then returns None.
handle_keyboard_event(c0, event) ==
    LET c == [c0 EXCEPT !.exc = ""]
        operation == KeyOperation(event)
        after == IF operation = "undo" THEN undo(c)
                 ELSE IF operation = "redo" THEN redo(c)
                 ELSE IF operation = "select_all" THEN select_all(c)
                 ELSE IF operation = "duplicate_selected" THEN duplicate_selected(c)
                 ELSE IF operation = "delete_selected" THEN delete_selected(c)
                 ELSE c
    IN  [canvas |-> [after EXCEPT !.exc = ""],
         calls |-> IF operation = "" THEN <<"ensure_focus">>
                   ELSE <<"ensure_focus", operation>>,
         result |-> IF operation # "" /\ after.exc = "" THEN "break" ELSE "None"]

-----------------------------------------------------------------------------
(* annotations.py: annotation objects and the AnnotationManager.  The      *)
(* manager m holds the lists annotations and selected_annotations of       *)
(* object ids and the annotation objects objs they refer to.               *)

ANN_THRESHOLD == 5

LineAnnotation(start, end) ==
    [type |-> "line", start |-> start, end |-> end,
     is_horizontal |-> Abs(start[2] - end[2]) < 2, is_selected |-> FALSE]

RectangleAnnotation(start, end) ==
    [type |-> "rectangle", start |-> start, end |-> end,
     is_horizontal |-> FALSE, is_selected |-> FALSE]

\* _text_width and _text_height are 0 until the text is drawn, so the box
\* of a text annotation is its position
TextAnnotation(position) ==
    [type |-> "text", start |-> position, end |-> position,
     is_horizontal |-> FALSE, is_selected |-> FALSE]

\* Annotation.move without the lock of horizontal lines
annotation_move_unlocked(a, dx, dy) ==
    [a EXCEPT !.start = <<a.start[1] + dx, a.start[2] + dy>>,
              !.end = <<a.end[1] + dx, a.end[2] + dy>>]

\* Annotation.move locking every line
annotation_move_locked(a, dx, dy) ==
    IF a.type = "line"
    THEN [a EXCEPT !.start = <<a.start[1] + dx, a.start[2] + dy>>,
                   !.end = <<a.end[1] + dx, a.start[2] + dy>>]
    ELSE [a EXCEPT !.start = <<a.start[1] + dx, a.start[2] + dy>>,
                   !.end = <<a.end[1] + dx, a.end[2] + dy>>]

\* Annotation.move
annotation_move(a, dx, dy) ==
    IF a.type = "line" /\ a.is_horizontal
    THEN [a EXCEPT !.start = <<a.start[1] + dx, a.start[2] + dy>>,
                   !.end = <<a.end[1] + dx, a.start[2] + dy>>]
    ELSE [a EXCEPT !.start = <<a.start[1] + dx, a.start[2] + dy>>,
                   !.end = <<a.end[1] + dx, a.end[2] + dy>>]

\* Annotation.get_bounding_box: <<min_point, max_point>>
get_bounding_box(a) ==
    << <<Min(a.start[1], a.end[1]), Min(a.start[2], a.end[2])>>,
       <<Max(a.start[1], a.end[1]), Max(a.start[2], a.end[2])>> >>

\* BoundingBox.contains_point
BoxContainsPoint(bbox, p) ==
    LET dx == Max(Max(bbox[1][1] - p[1], 0), p[1] - bbox[2][1])
        dy == Max(Max(bbox[1][2] - p[2], 0), p[2] - bbox[2][2])
    IN  \/ /\ bbox[1][1] <= p[1] /\ p[1] <= bbox[2][1]
           /\ bbox[1][2] <= p[2] /\ p[2] <= bbox[2][2]
        \/ dx * dx + dy * dy <= ANN_THRESHOLD * ANN_THRESHOLD

\* LineAnnotation.contains_point: the distance from p to the segment is
\* below the threshold (compared as squares; cross^2 / l2 is the squared
\* distance to the projection)
LineContainsPoint(a, p) ==
    LET dx == a.end[1] - a.start[1]
        dy == a.end[2] - a.start[2]
        l2 == dx * dx + dy * dy
        dot == (p[1] - a.start[1]) * dx + (p[2] - a.start[2]) * dy
        cross == (p[1] - a.start[1]) * dy - (p[2] - a.start[2]) * dx
        T2 == ANN_THRESHOLD * ANN_THRESHOLD
    IN  IF l2 = 0 THEN Dist2(a.start, p) < T2
        ELSE IF dot <= 0 THEN Dist2(a.start, p) < T2
        ELSE IF dot >= l2 THEN Dist2(a.end, p) < T2
        ELSE cross * cross < T2 * l2

\* Annotation.contains_point
contains_point(a, p) ==
    IF a.type = "line" THEN LineContainsPoint(a, p)
    ELSE BoxContainsPoint(get_bounding_box(a), p)

\* AnnotationManager.__init__
InitManager == [annotations |-> <<>>, selected_annotations |-> <<>>, objs |-> <<>>]

\* the caller constructs an annotation object; its id is Len(m.objs) + 1
NewAnnotation(m, a) == [m EXCEPT !.objs = Append(@, a)]

add_annotation(m, a) == [m EXCEPT !.annotations = Append(@, a)]

remove_annotation(m, a) ==
    IF ~Contains(m.annotations, a) THEN m
    ELSE [m EXCEPT !.annotations = ListRemove(@, a),
                   !.selected_annotations =
                       IF Contains(@, a) THEN ListRemove(@, a) ELSE @]

\* for annotation in self.selected_annotations: annotation.is_selected = False
Deselect(objs, ids) ==
    [i \in 1..Len(objs) |->
        IF Contains(ids, i) THEN [objs[i] EXCEPT !.is_selected = FALSE] ELSE objs[i]]

clear_selection(m) ==
    [m EXCEPT !.objs = Deselect(@, m.selected_annotations),
              !.selected_annotations = <<>>]

\* the smaller of the squared distances from p to the two corners of the
\* bounding box of a
CornerDist2(a, p) ==
    Min(Dist2(p, get_bounding_box(a)[1]), Dist2(p, get_bounding_box(a)[2]))

\* the loop of select_annotation over reversed(annotations), from position
\* i down: an annotation under p that is already selected ends the search,
\* otherwise the one nearest to p so far is kept (best is its squared
\* distance, None for infinity)
RECURSIVE FindTarget(_, _, _, _, _)
FindTarget(m, p, i, target, best) ==
    IF i = 0 THEN target
    ELSE IF ~contains_point(m.objs[m.annotations[i]], p)
    THEN FindTarget(m, p, i - 1, target, best)
    ELSE IF Contains(m.selected_annotations, m.annotations[i])
    THEN Some(m.annotations[i])
    ELSE IF best = None \/ CornerDist2(m.objs[m.annotations[i]], p) < best[1]
    THEN FindTarget(m, p, i - 1, Some(m.annotations[i]),
                    Some(CornerDist2(m.objs[m.annotations[i]], p)))
    ELSE FindTarget(m, p, i - 1, target, best)

\* selected_annotations.append(a); a.is_selected = True
SelectOne(m, a) ==
    [m EXCEPT !.selected_annotations = Append(@, a),
              !.objs[a].is_selected = TRUE]

\* a selection that replaces the selection set whether Ctrl is held or not
SelectTargetReplacing(m, target, ctrl_pressed) ==
    IF target = None THEN clear_selection(m)
    ELSE SelectOne(clear_selection(m), target[1])

\* the rest of select_annotation once the target is known
SelectTarget(m, target, ctrl_pressed) ==
    IF target = None
    THEN IF ctrl_pressed THEN m ELSE clear_selection(m)
    ELSE IF ctrl_pressed
    THEN IF Contains(m.selected_annotations, target[1])
         THEN [m EXCEPT !.selected_annotations = ListRemove(@, target[1]),
                        !.objs[target[1]].is_selected = FALSE]
         ELSE SelectOne(m, target[1])
    ELSE SelectOne(clear_selection(m), target[1])

\* a select_annotation that takes the nearest annotation under p, selected
\* or not, the last added on ties
select_annotation_nearest(m, p, ctrl_pressed) ==
    LET hits == {i \in 1..Len(m.annotations) : contains_point(m.objs[m.annotations[i]], p)}
        far(i) == CornerDist2(m.objs[m.annotations[i]], p)
        pick == CHOOSE i \in hits :
                    \A j \in hits : far(i) < far(j) \/ (far(i) = far(j) /\ i >= j)
    IN  SelectTarget(m, IF hits = {} THEN None ELSE Some(m.annotations[pick]), ctrl_pressed)

select_annotation(m, p, ctrl_pressed) ==
    SelectTarget(m, FindTarget(m, p, Len(m.annotations), None, None), ctrl_pressed)

\* the inner loop of select_multiple: the last added annotation under p
\* that is not selected yet, None if there is none
RECURSIVE FirstUnselected(_, _, _)
FirstUnselected(m, p, i) ==
    IF i = 0 THEN None
    ELSE IF /\ contains_point(m.objs[m.annotations[i]], p)
            /\ ~Contains(m.selected_annotations, m.annotations[i])
    THEN Some(m.annotations[i])
    ELSE FirstUnselected(m, p, i - 1)

\* one round of the outer loop of select_multiple
SelectFound(m, found) == IF found = None THEN m ELSE SelectOne(m, found[1])

RECURSIVE SelectPoints(_, _)
SelectPoints(m, points) ==
    IF points = <<>> THEN m
    ELSE SelectPoints(SelectFound(m, FirstUnselected(m, points[1], Len(m.annotations))),
                      Tail(points))

select_multiple(m, points, ctrl_pressed) ==
    SelectPoints(IF ctrl_pressed THEN m ELSE clear_selection(m), points)

\* the loop of move_selected over selected_annotations, from position i on
RECURSIVE MoveFrom(_, _, _, _)
MoveFrom(m, i, dx, dy) ==
    IF i > Len(m.selected_annotations) THEN m
    ELSE MoveFrom([m EXCEPT !.objs[m.selected_annotations[i]] = annotation_move(@, dx, dy)],
                  i + 1, dx, dy)

move_selected(m, dx, dy) == MoveFrom(m, 1, dx, dy)

-----------------------------------------------------------------------------
(* State: the DrawingCanvas object (its attributes and the shape objects   *)
(* they refer to), the AnnotationManager object, and the name of the       *)
(* handler or method that ran last                                         *)

VARIABLES canvas, manager, op

vars == <<canvas, manager, op>>

ShapeCoords(o) ==
    {o.x1, o.y1, o.x2, o.y2, o.center_x, o.center_y}
    \cup {o.points[i][1] : i \in 1..Len(o.points)}
    \cup {o.points[i][2] : i \in 1..Len(o.points)}

\* A scope gives the inputs the handlers are called with and the sizes the
\* canvas may grow to
Scope(clicks, modes, maxShapes, maxUndo, maxPoints) ==
    [clicks |-> clicks, modes |-> modes, maxShapes |-> maxShapes,
     maxUndo |-> maxUndo, maxPoints |-> maxPoints]

Bounded(c, S) ==
    /\ Len(c.objs) <= S.maxShapes
    /\ Len(c.undo_stack) <= S.maxUndo
    /\ Len(c.current_points) <= S.maxPoints
    /\ \A i \in 1..Len(c.objs) : \A v \in ShapeCoords(c.objs[i]) : Abs(v) <= MaxCoord

Init ==
    /\ canvas = InitCanvas
    /\ manager = InitManager
    /\ op = "init"

\* <Button-1>
OnClick(S) ==
    \E p \in S.clicks : \E c \in {on_click(canvas, p[1], p[2])} :
        Bounded(c, S) /\ canvas' = c /\ op' = "on_click"
        /\ UNCHANGED manager

\* <Button-3>
OnRightClick(S) ==
    \E c \in {on_right_click(canvas)} :
        Bounded(c, S) /\ canvas' = c /\ op' = "on_right_click"
        /\ UNCHANGED manager

\* <Motion>
OnMotion(S) ==
    \E p \in S.clicks : \E c \in {on_motion(canvas, p[1], p[2])} :
        Bounded(c, S) /\ canvas' = c /\ op' = "on_motion"
        /\ UNCHANGED manager

\* the check button of the snap frame
ToggleSnap(S) ==
    \E c \in {toggle_snap(canvas)} :
        Bounded(c, S) /\ canvas' = c /\ op' = "toggle_snap"
        /\ UNCHANGED manager

\* the check buttons of the snap types
ToggleSnapType(S) ==
    \E t \in {"endpoint", "midpoint", "intersection"} : \E c \in {toggle_snap_type(canvas, t)} :
        Bounded(c, S) /\ canvas' = c /\ op' = "toggle_snap_type"
        /\ UNCHANGED manager

\* canvas.reset()
Reset(S) ==
    \E c \in {reset(canvas)} :
        Bounded(c, S) /\ canvas' = c /\ op' = "reset"
        /\ UNCHANGED manager

\* <Escape>
OnEscape(S) ==
    \E c \in {on_escape(canvas)} :
        Bounded(c, S) /\ canvas' = c /\ op' = "on_escape"
        /\ UNCHANGED manager

\* canvas.mode = value
SetMode(S) ==
    \E m \in S.modes : \E c \in {set_mode(canvas, m)} :
        Bounded(c, S) /\ canvas' = c /\ op' = "mode"
        /\ UNCHANGED manager

SetColor(S) ==
    \E v \in Colors : \E c \in {set_color(canvas, v)} :
        Bounded(c, S) /\ canvas' = c /\ op' = "set_color"
        /\ UNCHANGED manager

SetWidth(S) ==
    \E v \in Widths : \E c \in {set_width(canvas, v)} :
        Bounded(c, S) /\ canvas' = c /\ op' = "set_width"
        /\ UNCHANGED manager

SetStyle(S) ==
    \E v \in Styles : \E c \in {set_style(canvas, v)} :
        Bounded(c, S) /\ canvas' = c /\ op' = "set_style"
        /\ UNCHANGED manager

\* <Control-Button-1>
OnSelect(S) ==
    \E p \in S.clicks : \E c \in {on_select(canvas, p[1], p[2])} :
        Bounded(c, S) /\ canvas' = c /\ op' = "on_select"
        /\ UNCHANGED manager

SelectAll(S) ==
    \E c \in {select_all(canvas)} :
        Bounded(c, S) /\ canvas' = c /\ op' = "select_all"
        /\ UNCHANGED manager

\* <B1-Motion>
OnDrag(S) ==
    \E p \in S.clicks : \E c \in {on_drag(canvas, p[1], p[2])} :
        Bounded(c, S) /\ canvas' = c /\ op' = "on_drag"
        /\ UNCHANGED manager

\* <ButtonRelease-1>
OnRelease(S) ==
    \E c \in {on_release(canvas)} :
        Bounded(c, S) /\ canvas' = c /\ op' = "on_release"
        /\ UNCHANGED manager

Undo(S) ==
    \E c \in {undo(canvas)} :
        Bounded(c, S) /\ canvas' = c /\ op' = "undo"
        /\ UNCHANGED manager

Redo(S) ==
    \E c \in {redo(canvas)} :
        Bounded(c, S) /\ canvas' = c /\ op' = "redo"
        /\ UNCHANGED manager

DuplicateSelected(S) ==
    \E c \in {duplicate_selected(canvas)} :
        Bounded(c, S) /\ canvas' = c /\ op' = "duplicate_selected"
        /\ UNCHANGED manager

DeleteSelected(S) ==
    \E c \in {delete_selected(canvas)} :
        Bounded(c, S) /\ canvas' = c /\ op' = "delete_selected"
        /\ UNCHANGED manager

\* the <KeyPress> events given to handle_keyboard_event: the five shortcuts,
\* Control-Z with Shift, and keys that are no shortcut
KeyEvents ==
    {KeyEvent("z", 4), KeyEvent("Z", 5), KeyEvent("y", 4), KeyEvent("a", 4),
     KeyEvent("d", 4), KeyEvent("Delete", 0), KeyEvent("z", 0), KeyEvent("x", 4)}

\* <KeyPress>
KeyPress(S) ==
    \E event \in KeyEvents : \E c \in {handle_keyboard_event(canvas, event).canvas} :
        Bounded(c, S) /\ canvas' = c /\ op' = "handle_keyboard_event"
        /\ UNCHANGED manager

\* every handler, called with every input
All == Scope(Clicks, Modes, MaxShapes, MaxUndo, MaxPoints)

Next ==
    \/ OnClick(All)
    \/ OnRightClick(All)
    \/ OnMotion(All)
    \/ OnEscape(All)
    \/ ToggleSnap(All)
    \/ ToggleSnapType(All)
    \/ SetMode(All)
    \/ SetColor(All)
    \/ SetWidth(All)
    \/ SetStyle(All)
    \/ OnSelect(All)
    \/ SelectAll(All)
    \/ OnDrag(All)
    \/ OnRelease(All)
    \/ Undo(All)
    \/ Redo(All)
    \/ DuplicateSelected(All)
    \/ DeleteSelected(All)
    \/ KeyPress(All)
    \/ Reset(All)

Spec == Init /\ [][Next]_vars

-----------------------------------------------------------------------------
(* The undo log: every handler that pushes an entry, on a canvas of one    *)
(* shape                                                                   *)

LogClicks == {<<80, 60>>}
Log == Scope(LogClicks, {"line", "polygon"}, OneShape, MaxUndo, MaxPoints)

NextLog ==
    \/ OnClick(Log)
    \/ OnRightClick(Log)
    \/ SetMode(Log)
    \/ SelectAll(Log)
    \/ DeleteSelected(Log)
    \/ SetColor(Log)
    \/ SetWidth(Log)
    \/ SetStyle(Log)
    \/ Undo(Log)
    \/ Redo(Log)

SpecLog == Init /\ [][NextLog]_vars

Last(s) == s[Len(s)]
Front(s) == SubSeq(s, 1, Len(s) - 1)

PushOps == {"on_click", "on_right_click", "delete_selected",
            "set_color", "set_width", "set_style"}

\* C1: a step of on_click, on_right_click (complete_shape), delete_selected,
\* set_color, set_width or set_style that appends an entry to undo_stack
\* leaves redo_stack empty.
C1_PushClearsRedo ==
    [][(op' \in PushOps /\ Len(canvas'.undo_stack) > Len(canvas.undo_stack))
          => canvas'.redo_stack = <<>>]_vars

\* C1: set_color has just pushed the only entry of undo_stack although a shape
\* was committed before, so the entries pushed earlier had been undone and
\* were waiting on redo_stack when set_color ran.
C1_Witness ==
    /\ op = "set_color"
    /\ Len(canvas.objs) = 1
    /\ Len(canvas.undo_stack) = 1
    /\ Last(canvas.undo_stack).type = "change_property"
    /\ canvas.redo_stack = <<>>

\* redo called right after undo gives both stacks back
RedoAfterUndoRestoresStacks ==
    canvas.undo_stack # <<>> =>
        /\ redo(undo(canvas)).undo_stack = canvas.undo_stack
        /\ redo(undo(canvas)).redo_stack = canvas.redo_stack

\* C2: undo on a non-empty undo_stack moves exactly its top entry onto
\* redo_stack, redo on a non-empty redo_stack moves exactly its top entry onto
\* undo_stack, neither changes len(undo_stack) + len(redo_stack), and redo
\* right after undo gives both stacks back.
C2_StackTransfer ==
    /\ [][/\ (op' = "undo" /\ canvas.undo_stack # <<>>) =>
                /\ canvas'.undo_stack = Front(canvas.undo_stack)
                /\ canvas'.redo_stack = Append(canvas.redo_stack, Last(canvas.undo_stack))
          /\ (op' = "redo" /\ canvas.redo_stack # <<>>) =>
                /\ canvas'.redo_stack = Front(canvas.redo_stack)
                /\ canvas'.undo_stack = Append(canvas.undo_stack, Last(canvas.redo_stack))
          /\ op' \in {"undo", "redo"} =>
                Len(canvas'.undo_stack) + Len(canvas'.redo_stack)
                    = Len(canvas.undo_stack) + Len(canvas.redo_stack)]_vars
    /\ []RedoAfterUndoRestoresStacks

\* C2: redo has just moved an entry back while another undone entry still
\* waits on redo_stack.
C2_Witness ==
    /\ op = "redo"
    /\ Len(canvas.undo_stack) = 1
    /\ Len(canvas.redo_stack) = 1

-----------------------------------------------------------------------------
(* Editing without undo: sequences of add, move, resize and delete from    *)
(* the empty canvas.  The mode is chosen before the first click and kept:  *)
(* in rectangle mode one rectangle is drawn, moved and resized, in line    *)
(* mode two lines are drawn, moved and deleted.                            *)

ResizeClicks == {<<0, 0>>, <<80, 60>>, <<40, 30>>}
LineClicks == {<<0, 0>>, <<80, 60>>}

RoundScope ==
    IF canvas.mode = "rectangle"
    THEN Scope(ResizeClicks, {}, OneShape, MaxUndo, MaxPoints)
    ELSE Scope(LineClicks, {}, MaxShapes, MaxUndo + 1, MaxPoints)

InitRound ==
    /\ canvas \in {InitCanvas, set_mode(InitCanvas, "rectangle")}
    /\ manager = InitManager
    /\ op = "init"

NextRound ==
    \/ OnClick(RoundScope)
    \/ OnSelect(RoundScope)
    \/ SelectAll(RoundScope)
    \/ OnDrag(RoundScope)
    \/ OnRelease(RoundScope)
    \/ DeleteSelected(RoundScope)

SpecRound == InitRound /\ [][NextRound]_vars

\* undo() called n times
RECURSIVE UndoN(_, _)
UndoN(c, n) == IF n = 0 THEN c ELSE UndoN(undo(c), n - 1)

\* redo() called n times
RECURSIVE RedoN(_, _)
RedoN(c, n) == IF n = 0 THEN c ELSE RedoN(redo(c), n - 1)

\* kind, coordinates and points of a shape
Geometry(o) ==
    [kind |-> o.kind, x1 |-> o.x1, y1 |-> o.y1, x2 |-> o.x2, y2 |-> o.y2,
     center_x |-> o.center_x, center_y |-> o.center_y, radius2 |-> o.radius2,
     points |-> o.points]

\* the same shapes in the same order with the same geometry, and the same
\* selection
SameDrawing(a, b) ==
    /\ a.shapes = b.shapes
    /\ \A i \in 1..Len(a.shapes) :
           Geometry(a.objs[a.shapes[i]]) = Geometry(b.objs[b.shapes[i]])
    /\ a.selected_shapes = b.selected_shapes

\* C3: after any sequence of commits, drags (moves and resizes) and
\* delete_selected from the empty canvas, n calls of undo followed by n
\* calls of redo leave shapes, their geometry and selected_shapes as they
\* were, for every n.
C3_RoundTrip ==
    \A n \in 0..MaxRound : SameDrawing(RedoN(UndoN(canvas, n), n), canvas)

\* C3: two lines were drawn, one was dragged away from where it was drawn
\* and one was deleted; three undos empty the canvas and two bring back a
\* shape that is not on the canvas now.
C3_Witness ==
    /\ Len(canvas.undo_stack) = 3
    /\ Last(canvas.undo_stack).type = "delete_shapes"
    /\ Len(canvas.shapes) = 1
    /\ canvas.objs[canvas.shapes[1]].x1 \notin {0, 80}
    /\ UndoN(canvas, 3).shapes = <<>>
    /\ Len(UndoN(canvas, 1).shapes) = 2
    /\ RedoN(UndoN(canvas, 3), 3).shapes = canvas.shapes

\* the geometry of every shape object
AllGeometry(c) == [i \in 1..Len(c.objs) |-> Geometry(c.objs[i])]

\* a drag gesture from the canvas c: after a press on a resize handle the
\* tick at q resizes; otherwise the tick at p records the pointer and the
\* tick at q moves; on_release ends the gesture
Gesture(c, p, q) ==
    IF c.is_resizing
    THEN on_release(on_drag(c, q[1], q[2]))
    ELSE on_release(on_drag(on_drag(c, p[1], p[2]), q[1], q[2]))

\* C4: a drag gesture that changes the geometry of the selected shapes
\* pushes exactly one move_shape or resize_shape entry, leaves redo_stack
\* empty, and an undo right after it gives the shapes the geometry they had
\* before the gesture.
C4_GestureIsLogged ==
    \A p \in RoundScope.clicks : \A q \in RoundScope.clicks :
        (/\ canvas.selected_shapes # <<>>
         /\ canvas.is_resizing \/ canvas.last_x = None
         /\ AllGeometry(Gesture(canvas, p, q)) # AllGeometry(canvas))
        => /\ Len(Gesture(canvas, p, q).undo_stack) = Len(canvas.undo_stack) + 1
           /\ Last(Gesture(canvas, p, q).undo_stack).type \in {"move_shape", "resize_shape"}
           /\ Gesture(canvas, p, q).redo_stack = <<>>
           /\ AllGeometry(undo(Gesture(canvas, p, q))) = AllGeometry(canvas)

(***************************************************************************)
(* Selection and deletion.  SpecOrder draws, duplicates and deletes up to  *)
(* three lines in line mode; SpecSel runs every handler that touches       *)
(* selected_shapes, mode changes included, on up to two shapes.            *)
(***************************************************************************)
OrderShapes == 3

SelClicks == {<<80, 60>>}

Order == Scope(SelClicks, {}, OrderShapes, MaxUndo, MaxPoints)

NextOrder ==
    \/ OnClick(Order)
    \/ SelectAll(Order)
    \/ DuplicateSelected(Order)
    \/ DeleteSelected(Order)
    \/ Undo(Order)
    \/ Redo(Order)

SpecOrder == Init /\ [][NextOrder]_vars

Sel == Scope(SelClicks, {"line", "polygon"}, MaxShapes, MaxUndo, MaxPoints)

NextSel ==
    \/ OnClick(Sel)
    \/ OnRightClick(Sel)
    \/ OnSelect(Sel)
    \/ SelectAll(Sel)
    \/ DeleteSelected(Sel)
    \/ DuplicateSelected(Sel)
    \/ SetMode(Sel)
    \/ Undo(Sel)
    \/ Redo(Sel)

SpecSel == Init /\ [][NextSel]_vars

\* every element of s is an element of t
SubsetOf(s, t) == \A i \in 1..Len(s) : Contains(t, s[i])

\* no element occurs twice in s
NoRepeat(s) == \A i \in 1..Len(s) : \A j \in 1..Len(s) : s[i] = s[j] => i = j

\* C5: whatever the shapes and whatever the order of a non-empty selection
\* of them, delete_selected followed by undo leaves shapes as it was,
\* element for element and in the same order.
C5_DeleteUndoRestoresOrder ==
    (/\ canvas.selected_shapes # <<>>
     /\ SubsetOf(canvas.selected_shapes, canvas.shapes)
     /\ NoRepeat(canvas.selected_shapes))
    => undo(delete_selected(canvas)).shapes = canvas.shapes


\* the elements of s that are not in ids, in the order of s
Without(s, ids) == SelectSeq(s, LAMBDA x : ~Contains(ids, x))

\* C6: delete_selected with k >= 1 selected shapes removes exactly those k
\* shapes, keeps the others in their relative order, empties
\* selected_shapes, and appends exactly one delete_shapes entry holding the
\* k shapes and the indices they had in shapes.
C6_DeleteSelectedRemovesSelection ==
    canvas.selected_shapes # <<>>
    => /\ delete_selected(canvas).shapes = Without(canvas.shapes, canvas.selected_shapes)
       /\ delete_selected(canvas).selected_shapes = <<>>
       /\ Front(delete_selected(canvas).undo_stack) = canvas.undo_stack
       /\ Last(delete_selected(canvas).undo_stack).type = "delete_shapes"
       /\ Last(delete_selected(canvas).undo_stack).shapes = canvas.selected_shapes
       /\ \A i \in 1..Len(canvas.selected_shapes) :
              canvas.shapes[Last(delete_selected(canvas).undo_stack).indices[i] + 1]
                  = canvas.selected_shapes[i]

\* C7: in every state reached through on_click, on_right_click, on_select,
\* select_all, delete_selected, duplicate_selected, mode changes, undo and
\* redo, every element of selected_shapes is an element of shapes.
C7_SelectionWithinShapes == SubsetOf(canvas.selected_shapes, canvas.shapes)

(***************************************************************************)
(* The AnnotationManager.  Its clients construct annotation objects and    *)
(* pass them to add_annotation and remove_annotation; an object may be     *)
(* passed again, whether it is in the lists or not.                        *)
(***************************************************************************)
MaxAnnotations == 3
MaxAnnObjects == 2

AnnTemplates ==
    {RectangleAnnotation(<<0, 0>>, <<20, 20>>),
     LineAnnotation(<<0, 10>>, <<20, 10>>),
     TextAnnotation(<<60, 10>>)}

AnnPoints == {<<10, 10>>, <<60, 10>>}
AnnPointLists == {<<p>> : p \in AnnPoints} \cup {<<p, q>> : p \in AnnPoints, q \in AnnPoints}
AnnMoves == {<<50, 0>>, <<-50, 0>>}

BoundedManager(m) ==
    /\ Len(m.annotations) <= MaxAnnotations
    /\ Len(m.objs) <= MaxAnnObjects
    /\ \A i \in 1..Len(m.objs) :
           \A v \in {m.objs[i].start[1], m.objs[i].start[2],
                     m.objs[i].end[1], m.objs[i].end[2]} : Abs(v) <= MaxCoord

\* add_annotation of a new object or of one constructed earlier
AddAnnotation ==
    \E m \in {add_annotation(NewAnnotation(manager, t), Len(manager.objs) + 1) :
                  t \in AnnTemplates}
             \cup {add_annotation(manager, a) : a \in 1..Len(manager.objs)} :
        BoundedManager(m) /\ manager' = m /\ op' = "add_annotation"
        /\ UNCHANGED canvas

RemoveAnnotation ==
    \E a \in 1..Len(manager.objs) :
        manager' = remove_annotation(manager, a) /\ op' = "remove_annotation"
        /\ UNCHANGED canvas

SelectAnnotation ==
    \E p \in AnnPoints : \E ctrl_pressed \in BOOLEAN :
        manager' = select_annotation(manager, p, ctrl_pressed)
        /\ op' = "select_annotation"
        /\ UNCHANGED canvas

SelectMultiple ==
    \E points \in AnnPointLists : \E ctrl_pressed \in BOOLEAN :
        manager' = select_multiple(manager, points, ctrl_pressed)
        /\ op' = "select_multiple"
        /\ UNCHANGED canvas

ClearSelection ==
    manager' = clear_selection(manager) /\ op' = "clear_selection"
    /\ UNCHANGED canvas

MoveSelected ==
    \E d \in AnnMoves : \E m \in {move_selected(manager, d[1], d[2])} :
        BoundedManager(m) /\ manager' = m /\ op' = "move_selected"
        /\ UNCHANGED canvas

NextAnn ==
    \/ AddAnnotation
    \/ RemoveAnnotation
    \/ SelectAnnotation
    \/ SelectMultiple
    \/ ClearSelection
    \/ MoveSelected

SpecAnn == Init /\ [][NextAnn]_vars

\* C8: in every state of the AnnotationManager every element of
\* selected_annotations is an element of annotations and occurs once in
\* selected_annotations, and remove_annotation(a) leaves a in neither
\* annotations nor selected_annotations.
C8_SelectedWithinAnnotations ==
    /\ SubsetOf(manager.selected_annotations, manager.annotations)
    /\ NoRepeat(manager.selected_annotations)
    /\ \A a \in 1..Len(manager.objs) :
           /\ ~Contains(remove_annotation(manager, a).annotations, a)
           /\ ~Contains(remove_annotation(manager, a).selected_annotations, a)

(***************************************************************************)
(* Drawing.  SpecDraw draws one shape in each of the four modes, with      *)
(* clicks that snap to it, a selection made in any mode, and its undo and  *)
(* redo.                                                                   *)
(***************************************************************************)
DrawClicks == {<<0, 0>>, <<80, 60>>, <<4, 3>>}

Draw == Scope(DrawClicks, Modes, OneShape, MaxUndo, MaxPoints)

NextDraw ==
    \/ OnClick(Draw)
    \/ OnRightClick(Draw)
    \/ OnEscape(Draw)
    \/ SetMode(Draw)
    \/ SelectAll(Draw)
    \/ Undo(Draw)
    \/ Redo(Draw)

SpecDraw == Init /\ [][NextDraw]_vars

\* a left click at p on the canvas c starts a resize: the first selected
\* shape is a Rectangle and p is on one of its handles
HandleHit(c, p) ==
    /\ c.selected_shapes # <<>>
    /\ c.objs[c.selected_shapes[1]].kind = "Rectangle"
    /\ get_resize_handle_at_point(c, p[1], p[2]) # "None"

\* the shape o is what the mode asks for between the points p1 and p2
IsShapeOfMode(o, mode, p1, p2) ==
    \/ /\ mode = "line" /\ o.kind = "Line"
       /\ <<o.x1, o.y1>> = p1 /\ <<o.x2, o.y2>> = p2
    \/ /\ mode = "rectangle" /\ o.kind = "Rectangle"
       /\ o.points = << <<Min(p1[1], p2[1]), Min(p1[2], p2[2])>>,
                        <<Max(p1[1], p2[1]), Min(p1[2], p2[2])>>,
                        <<Max(p1[1], p2[1]), Max(p1[2], p2[2])>>,
                        <<Min(p1[1], p2[1]), Max(p1[2], p2[2])>> >>
    \/ /\ mode = "circle" /\ o.kind = "Circle"
       /\ <<o.center_x, o.center_y>> = p1 /\ <<o.x2, o.y2>> = p2

\* c1 is c after a first click that returned and snapped to s1
FirstClickStores(c, c1, s1) ==
    /\ c1.exc = ""
    /\ c1.shapes = c.shapes
    /\ c1.undo_stack = c.undo_stack
    /\ c1.current_points = <<s1>>

\* c2 is c1 after a second click that returned and snapped to s2
SecondClickCommits(c1, c2, s2) ==
    /\ c2.exc = ""
    /\ Len(c2.shapes) = Len(c1.shapes) + 1
    /\ Front(c2.shapes) = c1.shapes
    /\ ~Contains(c1.shapes, Last(c2.shapes))
    /\ IsShapeOfMode(c2.objs[Last(c2.shapes)], c1.mode, c1.current_points[1], s2)
    /\ Front(c2.undo_stack) = c1.undo_stack
    /\ Last(c2.undo_stack).type = "add_shape"
    /\ Last(c2.undo_stack).shape = Last(c2.shapes)
    /\ c2.current_points = <<>>

\* C9: in mode line, rectangle or circle with no pending point, a first
\* click off the resize handles leaves shapes and undo_stack as they are
\* and stores the snapped position as the only pending point; a second
\* click off the handles appends one shape of the mode's kind between the
\* stored point and the snapped second position (a Rectangle with corners
\* (minx,miny), (maxx,miny), (maxx,maxy), (minx,maxy)), pushes one add_shape
\* entry for it and leaves current_points empty.
C9_TwoClickShapes ==
    \A p \in DrawClicks : \A q \in DrawClicks :
        (/\ canvas.mode \in {"line", "rectangle", "circle"}
         /\ canvas.current_points = <<>>
         /\ ~HandleHit(canvas, p))
        => /\ FirstClickStores(canvas, on_click(canvas, p[1], p[2]),
                               get_snap_point(canvas, p[1], p[2]))
           /\ ~HandleHit(on_click(canvas, p[1], p[2]), q)
              => SecondClickCommits(on_click(canvas, p[1], p[2]),
                                    on_click(on_click(canvas, p[1], p[2]), q[1], q[2]),
                                    get_snap_point(on_click(canvas, p[1], p[2]), q[1], q[2]))

\* C9: in rectangle mode a second click has just committed the rectangle
\* between (0,0) and (80,60) and pushed its add_shape entry
C9_Witness ==
    /\ op = "on_click"
    /\ canvas.mode = "rectangle"
    /\ canvas.current_points = <<>>
    /\ Len(canvas.shapes) = 1
    /\ canvas.objs[canvas.shapes[1]].points = << <<0, 0>>, <<80, 0>>, <<80, 60>>, <<0, 60>> >>
    /\ Len(canvas.undo_stack) = 1
    /\ Last(canvas.undo_stack).type = "add_shape"


\* c1 is c after a left click in polygon mode that snapped to s: nothing
\* is committed and s is the new last pending point
PolygonClickAppends(c, c1, s) ==
    /\ c1.exc = ""
    /\ c1.shapes = c.shapes
    /\ c1.objs = c.objs
    /\ c1.undo_stack = c.undo_stack
    /\ c1.redo_stack = c.redo_stack
    /\ c1.current_points = Append(c.current_points, s)

\* c2 is c after a right click: with three or more pending points one
\* Polygon with exactly these vertices is appended and logged, with fewer
\* nothing changes
RightClickCompletes(c, c2) ==
    IF Len(c.current_points) >= 3
    THEN /\ Len(c2.shapes) = Len(c.shapes) + 1
         /\ Front(c2.shapes) = c.shapes
         /\ ~Contains(c.shapes, Last(c2.shapes))
         /\ c2.objs[Last(c2.shapes)].kind = "Polygon"
         /\ c2.objs[Last(c2.shapes)].points = c.current_points
         /\ Front(c2.undo_stack) = c.undo_stack
         /\ Last(c2.undo_stack).type = "add_shape"
         /\ Last(c2.undo_stack).shape = Last(c2.shapes)
         /\ c2.redo_stack = <<>>
         /\ c2.current_points = <<>>
    ELSE c2 = [c EXCEPT !.exc = ""]

\* C10: in polygon mode a left click off the resize handles of a selected
\* rectangle commits nothing and appends the snapped point to
\* current_points, however many points there are; on_right_click with at
\* least three points (three, or one more after a further click) appends
\* one Polygon with the accumulated points in click order, pushes one
\* add_shape entry, clears redo_stack and empties current_points;
\* on_right_click with fewer than three points changes nothing.
C10_PolygonClicks ==
    canvas.mode = "polygon"
    => /\ RightClickCompletes(canvas, on_right_click(canvas))
       /\ \A p \in DrawClicks :
              ~HandleHit(canvas, p)
              => /\ PolygonClickAppends(canvas, on_click(canvas, p[1], p[2]),
                                        get_snap_point(canvas, p[1], p[2]))
                 /\ RightClickCompletes(on_click(canvas, p[1], p[2]),
                                        on_right_click(on_click(canvas, p[1], p[2])))

\* C10: in polygon mode a right click has just completed the polygon
\* (0,0), (80,60), (4,3) from three clicks and pushed its add_shape entry
C10_Witness ==
    /\ op = "on_right_click"
    /\ canvas.mode = "polygon"
    /\ Len(canvas.shapes) = 1
    /\ canvas.objs[canvas.shapes[1]].kind = "Polygon"
    /\ canvas.objs[canvas.shapes[1]].points = << <<0, 0>>, <<80, 60>>, <<4, 3>> >>
    /\ canvas.current_points = <<>>
    /\ Last(canvas.undo_stack).type = "add_shape"

\* C10 as stated: in polygon mode every left click, wherever it lands,
\* appends the snapped point to current_points and commits nothing; a
\* right click completes the polygon from three points on and changes
\* nothing otherwise.
C10_EveryLeftClickAppends ==
    canvas.mode = "polygon"
    => /\ RightClickCompletes(canvas, on_right_click(canvas))
       /\ \A p \in DrawClicks :
              PolygonClickAppends(canvas, on_click(canvas, p[1], p[2]),
                                  get_snap_point(canvas, p[1], p[2]))

(***************************************************************************)
(* Mixed selections.  SpecMix draws lines, switches to rectangle mode,     *)
(* draws rectangles, selects everything and drags it, so that move_shape   *)
(* meets a selection whose shapes are not all of the kind of the first.    *)
(***************************************************************************)
Mix == Scope(LineClicks, {"rectangle"}, MaxShapes, MaxUndo, MaxPoints)

NextMix ==
    \/ OnClick(Mix)
    \/ SetMode(Mix)
    \/ SelectAll(Mix)
    \/ OnDrag(Mix)
    \/ OnRelease(Mix)
    \/ OnEscape(Mix)

SpecMix == Init /\ [][NextMix]_vars

\* e is c after on_escape: no pending point, and the shapes, the selection
\* and both stacks as they were
EscapeDiscards(c, e) ==
    /\ e.current_points = <<>>
    /\ e.shapes = c.shapes
    /\ e.objs = c.objs
    /\ e.selected_shapes = c.selected_shapes
    /\ e.undo_stack = c.undo_stack
    /\ e.redo_stack = c.redo_stack

\* C11: on_escape, in any state, empties current_points and leaves shapes,
\* selected_shapes, undo_stack and redo_stack unchanged, and the on_click
\* that follows it in line, rectangle or circle mode stores a first point
\* and commits no shape.
C11_EscapeThenFirstPoint ==
    /\ EscapeDiscards(canvas, on_escape(canvas))
    /\ canvas.mode \in {"line", "rectangle", "circle"}
       => \A p \in LineClicks :
              FirstClickStores(on_escape(canvas),
                               on_click(on_escape(canvas), p[1], p[2]),
                               get_snap_point(on_escape(canvas), p[1], p[2]))


\* d is c after a call that returned normally and did nothing to the
\* drawing, the selection, the pending points or the stacks
NoChange(c, d) ==
    /\ d.exc = ""
    /\ d.shapes = c.shapes
    /\ d.objs = c.objs
    /\ d.selected_shapes = c.selected_shapes
    /\ d.current_points = c.current_points
    /\ d.undo_stack = c.undo_stack
    /\ d.redo_stack = c.redo_stack

\* C12: undo with an empty undo_stack, redo with an empty redo_stack,
\* delete_selected and duplicate_selected with an empty selection, and
\* on_right_click with fewer than three pending points each return
\* normally and leave shapes, selected_shapes, current_points, undo_stack
\* and redo_stack unchanged.
C12_NoOpsChangeNothing ==
    /\ canvas.undo_stack = <<>> => NoChange(canvas, undo(canvas))
    /\ canvas.redo_stack = <<>> => NoChange(canvas, redo(canvas))
    /\ canvas.selected_shapes = <<>> => NoChange(canvas, delete_selected(canvas))
    /\ canvas.selected_shapes = <<>> => NoChange(canvas, duplicate_selected(canvas))
    /\ Len(canvas.current_points) < 3 => NoChange(canvas, on_right_click(canvas))

\* C12: in polygon mode a right click has just been made with two pending
\* points, on a canvas with a shape, nothing selected and nothing to redo
C12_Witness ==
    /\ op = "on_right_click"
    /\ canvas.mode = "polygon"
    /\ Len(canvas.current_points) = 2
    /\ Len(canvas.shapes) = 1
    /\ canvas.selected_shapes = <<>>
    /\ canvas.redo_stack = <<>>


-----------------------------------------------------------------------------
(* Resizing.  A resize step is resize_shape called with a handle            *)
(* remembered; on_drag calls it when is_resizing is set and the first       *)
(* selected shape is a Rectangle.                                           *)

\* the canvas with the handle h remembered, as on_click leaves it
WithHandle(c, h) == [c EXCEPT !.is_resizing = TRUE, !.resize_handle = h]

\* the first selected shape is a Rectangle and the snap search returns
CanResize(c) ==
    /\ c.selected_shapes # <<>>
    /\ c.objs[c.selected_shapes[1]].kind = "Rectangle"
    /\ ~SnapRaises(c)

\* the coordinates each handle names
Named ==
    [nw |-> {"x1", "y1"}, n |-> {"y1"}, ne |-> {"x2", "y1"}, e |-> {"x2"},
     se |-> {"x2", "y2"}, s |-> {"y2"}, sw |-> {"x1", "y2"}, w |-> {"x1"}]

\* the rectangle a with the coordinates handle h names taken from snap
Stretched(a, h, snap) ==
    [a EXCEPT !.x1 = IF "x1" \in Named[h] THEN snap[1] ELSE @,
              !.x2 = IF "x2" \in Named[h] THEN snap[1] ELSE @,
              !.y1 = IF "y1" \in Named[h] THEN snap[2] ELSE @,
              !.y2 = IF "y2" \in Named[h] THEN snap[2] ELSE @]

\* the step would leave the rectangle narrower or lower than MIN_SIZE
TooSmall(r) == Abs(r.x2 - r.x1) < MIN_SIZE \/ Abs(r.y2 - r.y1) < MIN_SIZE

\* every selected shape of c has in d the coordinates and points it has in c
SelectedKept(c, d) ==
    \A i \in 1..Len(c.selected_shapes) :
        LET a == c.objs[c.selected_shapes[i]]
            b == d.objs[c.selected_shapes[i]]
        IN  /\ b.x1 = a.x1 /\ b.y1 = a.y1 /\ b.x2 = a.x2 /\ b.y2 = a.y2
            /\ b.points = a.points

\* the steps to p, which snaps to snap, that would be too small leave the
\* selected shapes of c as they are
RejectsSmall(c, p, snap) ==
    \A i \in 1..Len(HandleNames) :
        TooSmall(Stretched(c.objs[c.selected_shapes[1]], HandleNames[i], snap))
            => SelectedKept(c, resize_shape(WithHandle(c, HandleNames[i]), p[1], p[2]))

\* C13: a resize step that would give the rectangle a width or height below
\* MIN_SIZE is rejected: after the call every selected shape has the x1,
\* y1, x2, y2 and points it had before.
C13_SmallResizeRejected ==
    CanResize(canvas) =>
        \A p \in ResizeClicks : RejectsSmall(canvas, p, get_snap_point(canvas, p[1], p[2]))

\* C13 for a selection of one rectangle
C13_SingleSelection ==
    Len(canvas.selected_shapes) = 1 => C13_SmallResizeRejected


\* x1 <= x2, y1 <= y2 and both sides at least MIN_SIZE long
WellSized(r) ==
    /\ r.x1 <= r.x2
    /\ r.y1 <= r.y2
    /\ r.x2 - r.x1 >= MIN_SIZE
    /\ r.y2 - r.y1 >= MIN_SIZE

\* C14: a rectangle with x2 - x1 >= 10 and y2 - y1 >= 10 still satisfies
\* x1 <= x2, y1 <= y2, x2 - x1 >= MIN_SIZE and y2 - y1 >= MIN_SIZE after a
\* resize step, whatever the handle and the pointer position (and so after
\* any sequence of steps).
C14_ResizeKeepsWellSized ==
    (CanResize(canvas) /\ WellSized(canvas.objs[canvas.selected_shapes[1]])) =>
        \A i \in 1..Len(HandleNames) : \A p \in ResizeClicks :
            WellSized(resize_shape(WithHandle(canvas, HandleNames[i]), p[1], p[2])
                          .objs[canvas.selected_shapes[1]])


\* r is the rectangle a after a step with handle h that snapped to snap:
\* the named coordinates are the components of snap, the others those of
\* a, and points are the four corners
ResizedBy(a, r, h, snap) ==
    /\ <<r.x1, r.y1, r.x2, r.y2>>
           = <<Stretched(a, h, snap).x1, Stretched(a, h, snap).y1,
               Stretched(a, h, snap).x2, Stretched(a, h, snap).y2>>
    /\ r.points = <<(<<r.x1, r.y1>>), (<<r.x2, r.y1>>), (<<r.x2, r.y2>>), (<<r.x1, r.y2>>)>>

\* the steps to p, which snaps to snap, that are not too small
AcceptsNamed(c, p, snap) ==
    \A i \in 1..Len(HandleNames) :
        ~TooSmall(Stretched(c.objs[c.selected_shapes[1]], HandleNames[i], snap))
            => ResizedBy(c.objs[c.selected_shapes[1]],
                         resize_shape(WithHandle(c, HandleNames[i]), p[1], p[2])
                             .objs[c.selected_shapes[1]],
                         HandleNames[i], snap)

\* C15: an accepted resize step with handle h overwrites exactly the
\* coordinates named by the letters of h (n: y1, s: y2, w: x1, e: x2) with
\* the components of the snapped pointer position, leaves the other
\* coordinates of the rectangle unchanged and sets points to the four
\* corners (x1,y1), (x2,y1), (x2,y2), (x1,y2).
C15_AcceptedResizeSetsNamed ==
    CanResize(canvas) =>
        \A p \in ResizeClicks : AcceptsNamed(canvas, p, get_snap_point(canvas, p[1], p[2]))

\* C15: a drag tick has taken handle se of the rectangle (-80,-60)-(0,0) to
\* (80,60), and the rectangle is (-80,-60)-(80,60)
C15_Witness ==
    /\ op = "on_drag"
    /\ canvas.is_resizing
    /\ canvas.resize_handle = "se"
    /\ Len(canvas.selected_shapes) = 1
    /\ LET r == canvas.objs[canvas.selected_shapes[1]]
       IN  /\ r.kind = "Rectangle"
           /\ <<r.x1, r.y1, r.x2, r.y2>> = <<-80, -60, 80, 60>>
           /\ r.points = <<(<<-80, -60>>), (<<80, -60>>), (<<80, 60>>), (<<-80, 60>>)>>


(* Grabbing a handle.  SpecGrip is SpecMix with on_select in place of     *)
(* on_release and on_escape, so that one shape of a drawing that was      *)
(* dragged as a whole can be selected alone.                              *)
NextGrip ==
    \/ OnClick(Mix)
    \/ SetMode(Mix)
    \/ SelectAll(Mix)
    \/ OnSelect(Mix)
    \/ OnDrag(Mix)
SpecGrip == Init /\ [][NextGrip]_vars

\* the position p is within 5 px on both axes of the handle h of r
OnHandle(r, h, p) ==
    /\ Abs(2 * p[1] - Handles2(r)[h][1]) <= 2 * 5
    /\ Abs(2 * p[2] - Handles2(r)[h][2]) <= 2 * 5

\* d is c after a click at p that did nothing but start a resize with a
\* handle of r under p
GripsHandle(c, r, p, d) ==
    /\ d.exc = ""
    /\ d.is_resizing
    /\ d.resize_handle \in DOMAIN Handles2(r)
    /\ OnHandle(r, d.resize_handle, p)
    /\ d.last_x = Some(p[1])
    /\ d.last_y = Some(p[2])
    /\ d.current_points = c.current_points
    /\ d.shapes = c.shapes
    /\ d.objs = c.objs
    /\ d.undo_stack = c.undo_stack

\* C16: on_click within 5 px on both axes of one of the eight handles of
\* the first selected shape, when that shape is a Rectangle, sets
\* is_resizing, remembers the handle in resize_handle and the click
\* position in last_x and last_y, and leaves current_points, shapes and
\* undo_stack unchanged, whatever the mode and the pending points.
C16_ClickOnHandleGrips ==
    (canvas.selected_shapes # <<>> /\ canvas.objs[canvas.selected_shapes[1]].kind = "Rectangle") =>
        \A p \in LineClicks :
            (\E i \in 1..Len(HandleNames) :
                 OnHandle(canvas.objs[canvas.selected_shapes[1]], HandleNames[i], p))
            => GripsHandle(canvas, canvas.objs[canvas.selected_shapes[1]], p,
                           on_click(canvas, p[1], p[2]))

\* C16 on the canvases where the snap search of on_click returns
C16_WhenSnapReturns ==
    ~SnapRaises(canvas) => C16_ClickOnHandleGrips


-----------------------------------------------------------------------------
(* Releasing and dragging *)

\* r is c after a release: the transient flags, the handle and the pointer
\* position are cleared and nothing else is touched
Released(c, r) ==
    /\ r.exc = ""
    /\ ~r.is_moving
    /\ ~r.is_resizing
    /\ r.resize_handle = "None"
    /\ r.last_x = None
    /\ r.last_y = None
    /\ r.shapes = c.shapes
    /\ r.objs = c.objs
    /\ r.selected_shapes = c.selected_shapes
    /\ r.current_points = c.current_points
    /\ r.undo_stack = c.undo_stack
    /\ r.redo_stack = c.redo_stack

\* d is r after a drag tick at p that changed no shape and, with a
\* selection, recorded p
OnlyRecords(r, d, p) ==
    /\ d.exc = ""
    /\ d.objs = r.objs
    /\ d.shapes = r.shapes
    /\ d.selected_shapes = r.selected_shapes
    /\ r.selected_shapes # <<>> => d.last_x = Some(p[1]) /\ d.last_y = Some(p[2])

\* C17: on_release, in any state, leaves is_moving and is_resizing False,
\* resize_handle, last_x and last_y None, and does not change shapes,
\* selected_shapes, current_points or the stacks; the first on_drag after
\* it changes no geometry and only records the pointer position.
C17_ReleaseClearsGesture ==
    /\ Released(canvas, on_release(canvas))
    /\ \A p \in LineClicks :
           OnlyRecords(on_release(canvas), on_drag(on_release(canvas), p[1], p[2]), p)

\* C17: the button has been released after a drag that moved the selected
\* shape while a pointer position was remembered
C17_Witness ==
    /\ op = "on_release"
    /\ canvas.selected_shapes # <<>>
    /\ canvas.last_x = None
    /\ \E i \in 1..Len(canvas.objs) : canvas.objs[i].x1 = -80


\* the point list pts moved by (dx, dy)
Shifted(pts, dx, dy) == [i \in 1..Len(pts) |-> <<pts[i][1] + dx, pts[i][2] + dy>>]

\* b is the shape a translated by (dx, dy): the coordinates its kind has
\* and its points are moved, and nothing else differs
Translated(a, b, dx, dy) ==
    /\ b.kind = a.kind
    /\ b.attrs = a.attrs
    /\ b.points = Shifted(a.points, dx, dy)
    /\ a.kind \in {"Line", "Rectangle"}
           => <<b.x1, b.y1, b.x2, b.y2>> = <<a.x1 + dx, a.y1 + dy, a.x2 + dx, a.y2 + dy>>
    /\ a.kind = "Circle"
           => /\ <<b.center_x, b.center_y, b.x2, b.y2>>
                    = <<a.center_x + dx, a.center_y + dy, a.x2 + dx, a.y2 + dy>>
              /\ b.radius2 = a.radius2

\* a drag tick at p would move the selection of c: shapes are selected, a
\* pointer position is remembered, no resize is in progress and no end
\* point is selected
Moving(c) ==
    /\ c.selected_shapes # <<>>
    /\ c.last_x # None
    /\ c.last_y # None
    /\ ~c.is_resizing
    /\ c.selected_endpoint = None

\* d is c after a tick at p that moved exactly the selected shapes
MovedSelection(c, d, p) ==
    /\ d.exc = ""
    /\ d.shapes = c.shapes
    /\ \A i \in 1..Len(c.objs) :
           IF \E k \in 1..Len(c.selected_shapes) : c.selected_shapes[k] = i
           THEN Translated(c.objs[i], d.objs[i], p[1] - c.last_x[1], p[2] - c.last_y[1])
           ELSE d.objs[i] = c.objs[i]
    /\ d.last_x = Some(p[1])
    /\ d.last_y = Some(p[2])

\* C18: with a non-empty selection of any mix of shapes, no resize in
\* progress, no end point selected and a remembered pointer position, an
\* on_drag tick at (x, y) translates every selected shape by
\* (x - last_x, y - last_y), leaves the other shapes unchanged and sets
\* last_x, last_y to (x, y).
C18_DragTranslatesSelection ==
    Moving(canvas) =>
        \A p \in LineClicks : MovedSelection(canvas, on_drag(canvas, p[1], p[2]), p)

\* the end of the line l the position p is less than 5 px from on both
\* axes, the start first: <<0>>, <<1>> or <<>>
EndNear(l, p) ==
    IF Abs(p[1] - l.x1) < 5 /\ Abs(p[2] - l.y1) < 5 THEN <<0>>
    ELSE IF Abs(p[1] - l.x2) < 5 /\ Abs(p[2] - l.y2) < 5 THEN <<1>>
    ELSE <<>>

\* b is the line a with at most its end e changed: the other end is where
\* it was, points are the two ends, and nothing else differs
OnlyEndChanged(a, b, e) ==
    /\ e = 0 => b.x2 = a.x2 /\ b.y2 = a.y2
    /\ e = 1 => b.x1 = a.x1 /\ b.y1 = a.y1
    /\ b.points = <<(<<b.x1, b.y1>>), (<<b.x2, b.y2>>)>>
    /\ [b EXCEPT !.x1 = 0, !.y1 = 0, !.x2 = 0, !.y2 = 0, !.points = <<>>]
           = [a EXCEPT !.x1 = 0, !.y1 = 0, !.x2 = 0, !.y2 = 0, !.points = <<>>]

\* d is c after a drag tick: when c remembers a pointer position, the tick
\* changed only the end e of the selected line id
TickMovesEnd(c, d, id, e) ==
    (c.last_x # None /\ c.last_y # None) =>
        /\ d.exc = ""
        /\ d.shapes = c.shapes
        /\ d.selected_shapes = c.selected_shapes
        /\ d.selected_endpoint = c.selected_endpoint
        /\ \A i \in 1..Len(c.objs) :
               IF i = id THEN OnlyEndChanged(c.objs[i], d.objs[i], e)
               ELSE d.objs[i] = c.objs[i]

\* s is the canvas after an on_select at p: when it selected a line by one
\* of its ends, that end is recorded and the two ticks after it, at q and
\* at r, move nothing but that end
EndSelected(s, p, q, r, d1) ==
    (/\ s.selected_shapes # <<>>
     /\ s.objs[s.selected_shapes[1]].kind = "Line"
     /\ EndNear(s.objs[s.selected_shapes[1]], p) # <<>>)
    => /\ s.selected_endpoint = Some(EndNear(s.objs[s.selected_shapes[1]], p)[1])
       /\ TickMovesEnd(s, d1, s.selected_shapes[1], s.selected_endpoint[1])
       /\ TickMovesEnd(d1, on_drag(d1, r[1], r[2]), s.selected_shapes[1],
                       s.selected_endpoint[1])

DraggingEnd(c) ==
    /\ c.selected_shapes # <<>>
    /\ c.objs[c.selected_shapes[1]].kind = "Line"
    /\ c.selected_endpoint # None
    /\ c.last_x # None
    /\ c.last_y # None

\* the selected end of the first selected line of d is at snap
EndAt(d, snap) ==
    LET l == d.objs[d.selected_shapes[1]]
    IN  IF d.selected_endpoint = Some(0) THEN <<l.x1, l.y1>> = snap
        ELSE <<l.x2, l.y2>> = snap

\* C20: every drag that assigns a coordinate, an end-point drag as well as
\* a resize step, assigns get_snap_point of the pointer position, the
\* coordinate a click there would commit, not the raw pointer position.
C20_DragsAssignSnapPoint ==
    ~SnapRaises(canvas) =>
        /\ DraggingEnd(canvas) =>
               \A p \in DrawClicks :
                   EndAt(on_drag(canvas, p[1], p[2]), get_snap_point(canvas, p[1], p[2]))
        /\ CanResize(canvas) =>
               \A p \in DrawClicks :
                   AcceptsNamed(canvas, p, get_snap_point(canvas, p[1], p[2]))

\* C20 for the resize steps alone
C20_ResizeAssignsSnapPoint ==
    CanResize(canvas) =>
        \A p \in DrawClicks : AcceptsNamed(canvas, p, get_snap_point(canvas, p[1], p[2]))


-----------------------------------------------------------------------------
(* Drawing after a drag.  SpecLate is SpecMix with polygon mode and without *)
(* on_release and on_escape: clicks of every drawing mode arrive on a      *)
(* canvas whose shapes were drawn, selected together and dragged.          *)
Late == Scope(LineClicks, {"rectangle", "polygon"}, MaxShapes, MaxUndo, MaxPoints)

NextLate ==
    \/ OnClick(Late)
    \/ SetMode(Late)
    \/ SelectAll(Late)
    \/ OnDrag(Late)
SpecLate == Init /\ [][NextLate]_vars


-----------------------------------------------------------------------------
(* Snapping *)

\* d is c after a click at p that stored or committed a point: that point
\* is snap
ClickUses(c, d, snap) ==
    /\ (d.current_points # c.current_points /\ d.current_points # <<>>)
           => Last(d.current_points) = snap
    /\ Len(d.shapes) > Len(c.shapes)
           => LET o == d.objs[Last(d.shapes)]
              IN  IF o.kind = "Circle" THEN <<o.x2, o.y2>> = snap
                  ELSE IF o.kind = "Line" THEN <<o.x2, o.y2>> = snap
                  ELSE snap[1] \in {o.x1, o.x2} /\ snap[2] \in {o.y1, o.y2}

\* the preview items of c move with snap alone: every end of an item is a
\* pending point of c or snap
PreviewEndsAt(c, items, snap) ==
    \A i \in 1..Len(items) : \A k \in 1..2 :
        \/ items[i][k] = snap
        \/ \E j \in 1..Len(c.current_points) : items[i][k] = c.current_points[j]

\* m is c after on_motion
MotionKeeps(c, m) ==
    /\ m.current_points = c.current_points
    /\ m.shapes = c.shapes
    /\ m.objs = c.objs
    /\ m.selected_shapes = c.selected_shapes
    /\ m.undo_stack = c.undo_stack
    /\ m.redo_stack = c.redo_stack

\* the click and the motion at p, which snaps to snap on c
SnapsAlike(c, p, snap) ==
    /\ ClickUses(c, on_click(c, p[1], p[2]), snap)
    /\ PreviewEndsAt(c, motion_preview(c, p[1], p[2]), snap)

\* C21: the point on_click stores or commits at p is get_snap_point(p) on
\* the collection before the click, the preview on_motion draws at p has
\* the same point as its moving end, and on_motion leaves current_points,
\* shapes, selected_shapes and both stacks unchanged.
C21_ClickAndPreviewSnapAlike ==
    \A p \in DrawClicks :
        /\ MotionKeeps(canvas, on_motion(canvas, p[1], p[2]))
        /\ ~SnapRaises(canvas) => SnapsAlike(canvas, p, get_snap_point(canvas, p[1], p[2]))

\* C21 without the preview of polygon mode
C21_OutsidePolygonMode ==
    canvas.mode # "polygon" => C21_ClickAndPreviewSnapAlike

\* C21 for the point of the click alone
C21_ClickStoresSnapPoint ==
    \A p \in DrawClicks :
        ~SnapRaises(canvas)
            => ClickUses(canvas, on_click(canvas, p[1], p[2]),
                         get_snap_point(canvas, p[1], p[2]))


\* Snapping to crossing shapes: a line and a rectangle that cross away from
\* their end points and mid points, under every setting of the snap frame
SnapClicks == {<<0, 0>>, <<80, 60>>, <<60, 0>>}
Snap == Scope(SnapClicks, {"rectangle"}, MaxShapes, MaxUndo, MaxPoints)

NextSnap ==
    \/ OnClick(Snap)
    \/ SetMode(Snap)
    \/ ToggleSnap(Snap)
    \/ ToggleSnapType(Snap)
SpecSnap == Init /\ [][NextSnap]_vars

\* pointer positions: on a candidate, at distance 10 of one ((8, 6) of
\* (0, 0)), just further, half way between the corner (60, 0) and the mid
\* point (70, 0) of a rectangle, near the crossing (60, 45)
SnapProbes ==
    {<<0, 0>>, <<8, 6>>, <<9, 6>>, <<65, 0>>, <<70, 10>>, <<62, 44>>, <<60, 38>>,
     <<40, 30>>, <<70, 52>>, <<50, 20>>, <<84, 66>>}

\* the end points, mid points and pairwise intersections of the shapes of c
\* whose snap type is enabled, stated from the shapes' geometry
EndPointsOf(s) ==
    IF s.kind = "Line" THEN {<<s.x1, s.y1>>, <<s.x2, s.y2>>}
    ELSE IF s.kind = "Rectangle"
    THEN {<<s.x1, s.y1>>, <<s.x2, s.y1>>, <<s.x2, s.y2>>, <<s.x1, s.y2>>}
    ELSE IF s.kind = "Circle" THEN {<<s.center_x, s.center_y>>}
    ELSE {s.points[i] : i \in 1..Len(s.points)}

MidPointsOf(s) ==
    IF s.kind = "Line" THEN {<<(s.x1 + s.x2) \div 2, (s.y1 + s.y2) \div 2>>}
    ELSE IF s.kind = "Rectangle"
    THEN {<<(s.x1 + s.x2) \div 2, s.y1>>, <<s.x2, (s.y1 + s.y2) \div 2>>,
          <<(s.x1 + s.x2) \div 2, s.y2>>, <<s.x1, (s.y1 + s.y2) \div 2>>}
    ELSE IF s.kind = "Circle" THEN {}
    ELSE {<<(s.points[i][1] + s.points[(i % Len(s.points)) + 1][1]) \div 2,
            (s.points[i][2] + s.points[(i % Len(s.points)) + 1][2]) \div 2>> :
             i \in 1..Len(s.points)}

Candidates(c) ==
    LET sh(i) == c.objs[c.shapes[i]]
        n == Len(c.shapes)
    IN  (IF c.snap_types.endpoint THEN UNION {EndPointsOf(sh(i)) : i \in 1..n} ELSE {})
        \cup (IF c.snap_types.midpoint THEN UNION {MidPointsOf(sh(i)) : i \in 1..n} ELSE {})
        \cup (IF c.snap_types.intersection
              THEN UNION {IF i < j THEN Range(get_intersection_points(sh(i), sh(j))) ELSE {} :
                              i \in 1..n, j \in 1..n}
              ELSE {})

\* r is what the claim lets get_snap_point(p) return on c
SnapAnswer(c, p, r) ==
    LET sp == SnapPoints(c)
        within == {q \in Candidates(c) : Dist2(q, p) <= snap_distance * snap_distance}
    IN  IF c.snap_enabled /\ within # {}
        THEN /\ r \in within
             /\ \A q \in Candidates(c) : Dist2(r, p) <= Dist2(q, p)
             /\ \E i \in 1..Len(sp) :
                    /\ sp[i] = r
                    /\ \A j \in 1..(i - 1) : Dist2(sp[j], p) > Dist2(r, p)
        ELSE r = p

\* get_snap_point returns, and returns what the claim says
SnapReturns(c, p) ==
    /\ ~SnapRaises(c)
    /\ SnapAnswer(c, p, get_snap_point(c, p[1], p[2]))

\* C22: in every reachable state and for every pointer p, get_snap_point(p)
\* returns the candidate (enabled end point, mid point or pairwise
\* intersection of the shapes) nearest to p, the first enumerated one on
\* ties, when one lies within 10 px of p and snapping is enabled, and p
\* itself otherwise
C22_SnapIsNearestCandidate ==
    \A p \in SnapProbes : SnapReturns(canvas, p)

\* the same wherever the intersection search of get_snap_point returns
C22_WhenSearchReturns ==
    ~SnapRaises(canvas) => \A p \in SnapProbes : SnapReturns(canvas, p)


\* the inner call get_snap_point(p) returned a snap candidate
SnappedTo(c, p, r) ==
    /\ c.snap_enabled
    /\ ~SnapRaises(c)
    /\ Dist2(r, p) <= snap_distance * snap_distance
    /\ r = get_snap_point(c, p[1], p[2])
    /\ r \in Range(SnapPoints(c))

\* C23: in every reachable state and for every pointer p, when
\* get_snap_point(p) returned a snap candidate r, get_snap_point(r) is r
C23_SnapIsIdempotent ==
    \A p \in SnapProbes :
        LET r == get_snap_point(canvas, p[1], p[2])
        IN  SnappedTo(canvas, p, r) => get_snap_point(canvas, r[1], r[2]) = r

\* a pointer off every candidate was snapped to the crossing (60, 45) of a
\* line and a rectangle, and to a rectangle corner that has a mid point 10 px
\* from it
C23_Witness ==
    /\ SnappedTo(canvas, <<62, 44>>, <<60, 45>>)
    /\ SnappedTo(canvas, <<60, 38>>, <<60, 45>>)
    /\ \E q \in {<<60, 0>>, <<70, 0>>} : SnappedTo(canvas, <<65, 0>>, q)


-----------------------------------------------------------------------------
(* Duplicating: lines, rectangles and circles are drawn, selected together  *)
(* and duplicated                                                          *)
Dup == Scope(LineClicks, {"rectangle", "circle"}, MaxShapes, MaxUndo, MaxPoints)

NextDup ==
    \/ OnClick(Dup)
    \/ SetMode(Dup)
    \/ SelectAll(Dup)
    \/ DuplicateSelected(Dup)
    \/ Undo(Dup)
SpecDup == Init /\ [][NextDup]_vars

\* b has the kind and the appearance of a
SameLook(a, b) ==
    /\ b.kind = a.kind
    /\ b.color = a.color
    /\ b.width = a.width
    /\ b.style = a.style

\* the centre of the circle b is the centre of a moved by (dx, dy)
CentreMoved(a, b, dx, dy) ==
    <<b.center_x, b.center_y>> = <<a.center_x + dx, a.center_y + dy>>

\* every coordinate of b is the coordinate of a plus (dx, dy)
CoordsMoved(a, b, dx, dy) ==
    IF a.kind \in {"Line", "Rectangle"}
    THEN <<b.x1, b.y1, b.x2, b.y2>> = <<a.x1 + dx, a.y1 + dy, a.x2 + dx, a.y2 + dy>>
    ELSE IF a.kind = "Circle"
    THEN CentreMoved(a, b, dx, dy) /\ <<b.x2, b.y2>> = <<a.x2 + dx, a.y2 + dy>>
    ELSE b.points = Shifted(a.points, dx, dy)

\* the same, with the radius of a circle in place of its point x2,y2
CircleMoved(a, b, dx, dy) ==
    IF a.kind = "Circle"
    THEN CentreMoved(a, b, dx, dy) /\ b.radius2 = a.radius2
    ELSE CoordsMoved(a, b, dx, dy)

\* d is c with one new shape appended per selected shape, in selection
\* order, the shapes of c as they were and the new shapes selected
CopiesAppended(c, d) ==
    LET k == Len(c.selected_shapes)
        n == Len(c.shapes)
    IN  /\ d.exc = ""
        /\ Len(d.shapes) = n + k
        /\ SubSeq(d.shapes, 1, n) = c.shapes
        /\ \A i \in 1..k : d.shapes[n + i] \notin 1..Len(c.objs)
        /\ NoRepeat(d.shapes)
        /\ SubSeq(d.objs, 1, Len(c.objs)) = c.objs
        /\ d.selected_shapes = SubSeq(d.shapes, n + 1, n + k)
        /\ \A i \in 1..k :
               SameLook(c.objs[c.selected_shapes[i]], d.objs[d.shapes[n + i]])

\* C24: in every reachable state with a non-empty selection,
\* duplicate_selected appends one new shape per selected shape, in selection
\* order, of the same kind, color, width and style and with every
\* coordinate (for a Circle the centre and the point x2,y2) 20 more than
\* the original's; the originals are unchanged and the copies are the
\* selection
C24_DuplicateCopiesShifted ==
    canvas.selected_shapes # <<>> =>
        LET d == duplicate_selected(canvas)
            n == Len(canvas.shapes)
        IN  /\ CopiesAppended(canvas, d)
            /\ \A i \in 1..Len(canvas.selected_shapes) :
                   CoordsMoved(canvas.objs[canvas.selected_shapes[i]],
                               d.objs[d.shapes[n + i]], DUP_OFFSET, DUP_OFFSET)

\* the same with the radius of a Circle in place of its point x2,y2
C24_CirclesKeepRadius ==
    canvas.selected_shapes # <<>> =>
        LET d == duplicate_selected(canvas)
            n == Len(canvas.shapes)
        IN  /\ CopiesAppended(canvas, d)
            /\ \A i \in 1..Len(canvas.selected_shapes) :
                   CircleMoved(canvas.objs[canvas.selected_shapes[i]],
                               d.objs[d.shapes[n + i]], DUP_OFFSET, DUP_OFFSET)


\* C25: in every reachable state with a non-empty selection,
\* duplicate_selected pushes exactly one entry onto undo_stack and empties
\* redo_stack, undo right after it gives back the shapes from before the
\* duplication, and redo after that gives back the shapes with the copies
C25_DuplicateIsOneEdit ==
    canvas.selected_shapes # <<>> =>
        LET d == duplicate_selected(canvas)
            u == undo(d)
        IN  /\ d.exc = ""
            /\ Len(d.undo_stack) = Len(canvas.undo_stack) + 1
            /\ d.redo_stack = <<>>
            /\ u.exc = ""
            /\ u.shapes = canvas.shapes
            /\ redo(u).shapes = d.shapes

\* what duplicate_selected does to the two stacks
C25_DuplicateOnlyClearsRedo ==
    canvas.selected_shapes # <<>> =>
        LET d == duplicate_selected(canvas)
        IN  d.undo_stack = canvas.undo_stack /\ d.redo_stack = <<>>


-----------------------------------------------------------------------------
(* The keyboard: shapes are drawn and every edit comes from a key press *)
Keys == Scope(SelClicks, {"polygon"}, MaxShapes, MaxUndo, MaxPoints)

NextKeys ==
    \/ OnClick(Keys)
    \/ OnRightClick(Keys)
    \/ SetMode(Keys)
    \/ KeyPress(Keys)
SpecKeys == Init /\ [][NextKeys]_vars

\* the operation the spec gives to a key press, "" for a key that is no
\* shortcut
Shortcut(event) ==
    IF event \in {KeyEvent("z", 4), KeyEvent("Z", 5)} THEN "undo"
    ELSE IF event = KeyEvent("y", 4) THEN "redo"
    ELSE IF event = KeyEvent("a", 4) THEN "select_all"
    ELSE IF event = KeyEvent("d", 4) THEN "duplicate_selected"
    ELSE IF event = KeyEvent("Delete", 0) THEN "delete_selected"
    ELSE ""

\* the canvas after one call of the named operation
Operated(c, operation) ==
    IF operation = "undo" THEN undo(c)
    ELSE IF operation = "redo" THEN redo(c)
    ELSE IF operation = "select_all" THEN select_all(c)
    ELSE IF operation = "duplicate_selected" THEN duplicate_selected(c)
    ELSE delete_selected(c)

\* the key press did what the spec says of it
KeyHandled(c, event, r) ==
    IF Shortcut(event) # ""
    THEN /\ r.calls = <<"ensure_focus", Shortcut(event)>>
         /\ r.canvas = [Operated(c, Shortcut(event)) EXCEPT !.exc = ""]
         /\ r.result = "break"
    ELSE /\ r.canvas = [c EXCEPT !.exc = ""]
         /\ r.result = "None"

\* C26: in every reachable state, handle_keyboard_event for Ctrl+Z, Ctrl+Y,
\* Ctrl+A, Ctrl+D or Delete calls ensure_focus, then the matching operation
\* once, and returns "break"; for any other key it changes nothing of the
\* canvas and returns None
C26_ShortcutsRunAndBreak ==
    \A event \in KeyEvents :
        KeyHandled(canvas, event, handle_keyboard_event(canvas, event))

\* the same for the key presses whose operation does not raise
C26_UnlessOperationRaises ==
    \A event \in KeyEvents :
        (Shortcut(event) # "" => Operated(canvas, Shortcut(event)).exc = "")
            => KeyHandled(canvas, event, handle_keyboard_event(canvas, event))


-----------------------------------------------------------------------------
(* Selecting all, changing mode and the drawing properties *)

\* s is c with every shape of the collection selected once, in collection
\* order, and the collection, the pending points and both stacks as in c
AllSelected(c, s) ==
    /\ s.exc = ""
    /\ s.selected_shapes = c.shapes
    /\ NoRepeat(s.selected_shapes)
    /\ s.shapes = c.shapes
    /\ s.current_points = c.current_points
    /\ s.undo_stack = c.undo_stack
    /\ s.redo_stack = c.redo_stack

\* C27: in every reachable state, after select_all selected_shapes holds
\* exactly the shapes of the collection, each once and in collection order,
\* and shapes, current_points, undo_stack and redo_stack are unchanged
C27_SelectAllSelectsCollection ==
    AllSelected(canvas, select_all(canvas))

\* the same on a canvas that has shapes, or no selection
C27_WhenCollectionNotEmpty ==
    (canvas.shapes # <<>> \/ canvas.selected_shapes = <<>>)
        => AllSelected(canvas, select_all(canvas))


\* values assigned to mode: the modes of the tool bar and one that is none
ModeValues == Modes \cup {"select"}

\* m is c with mode = value, no selection and no gesture, and the shapes and
\* both stacks of c
ModeCleared(c, m, value) ==
    /\ m.exc = ""
    /\ m.mode = value
    /\ m.selected_shapes = <<>>
    /\ m.selected_endpoint = None
    /\ m.resize_handle = "None"
    /\ ~m.is_moving
    /\ ~m.is_resizing
    /\ m.shapes = c.shapes
    /\ m.objs = c.objs
    /\ m.undo_stack = c.undo_stack
    /\ m.redo_stack = c.redo_stack

\* C28: in every reachable state and for every value, assigning mode
\* empties selected_shapes, sets selected_endpoint and resize_handle to None
\* and is_moving and is_resizing to False, and leaves shapes, undo_stack and
\* redo_stack unchanged
C28_ModeClearsSelection ==
    \A value \in ModeValues : ModeCleared(canvas, set_mode(canvas, value), value)

\* C28: mode is assigned while a line selected by one of its ends is being
\* resized by a handle, with an entry on undo_stack
C28_Witness ==
    /\ canvas.selected_shapes # <<>>
    /\ canvas.selected_endpoint # None
    /\ canvas.is_resizing
    /\ canvas.resize_handle # "None"
    /\ canvas.undo_stack # <<>>
    /\ set_mode(canvas, "rectangle").selected_shapes = <<>>


\* the value of the named drawing property of c
PropertyOf(c, property) ==
    IF property = "current_color" THEN c.current_color
    ELSE IF property = "current_width" THEN c.current_width
    ELSE c.current_style

\* the shapes of b and their objects are those of a
ShapesKept(a, b) == b.shapes = a.shapes /\ b.objs = a.objs

\* s is c after the property was set from o to v: one change_property entry
\* (o, v) was pushed, undo right after s sets the property back to o, redo
\* after that sets it to v again, and the shapes are those of c throughout
PropertySet(c, s, property, v) ==
    LET o == PropertyOf(c, property)
        u == undo(s)
        r == redo(u)
    IN  /\ s.exc = "" /\ u.exc = "" /\ r.exc = ""
        /\ PropertyOf(s, property) = v
        /\ s.undo_stack = Append(c.undo_stack,
                                 [Entry EXCEPT !.type = "change_property",
                                               !.property = property,
                                               !.old_value = o, !.new_value = v])
        /\ PropertyOf(u, property) = o
        /\ u.undo_stack = c.undo_stack
        /\ PropertyOf(r, property) = v
        /\ r.undo_stack = s.undo_stack
        /\ ShapesKept(c, s) /\ ShapesKept(c, u) /\ ShapesKept(c, r)

\* C29: in every reachable state and for each of set_color, set_width and
\* set_style called with a value v while the property holds o, exactly one
\* change_property entry (o, v) is pushed, undo right after sets the
\* property back to o, redo after that sets it to v again, and the shapes
\* and the color, width and style of the committed shapes stay as they were
C29_PropertyChangeRoundTrip ==
    /\ \A v \in Colors \cup {"black"} :
           PropertySet(canvas, set_color(canvas, v), "current_color", v)
    /\ \A v \in Widths \cup {"1"} :
           PropertySet(canvas, set_width(canvas, v), "current_width", v)
    /\ \A v \in Styles \cup {"None"} :
           PropertySet(canvas, set_style(canvas, v), "current_style", v)

\* C29: set_width has just changed the width from "1" to "3" while a shape
\* drawn with width "1" is committed
C29_Witness ==
    /\ op = "set_width"
    /\ Last(canvas.undo_stack).type = "change_property"
    /\ Last(canvas.undo_stack).old_value = "1"
    /\ canvas.current_width = "3"
    /\ \E i \in 1..Len(canvas.shapes) :
           /\ canvas.objs[canvas.shapes[i]].color = "black"
           /\ canvas.objs[canvas.shapes[i]].width = "1"
    /\ undo(canvas).current_width = "1"


-----------------------------------------------------------------------------
(* The target of select_annotation *)

\* the positions in annotations of the annotations that contain p
HitsAt(m, p) ==
    {i \in 1..Len(m.annotations) : contains_point(m.objs[m.annotations[i]], p)}

\* the squared distance from p to the nearer of the min and the max corner
\* of the bounding box of the annotation at position i
NearerCorner2(m, p, i) ==
    LET a == m.objs[m.annotations[i]]
        lo == <<Min(a.start[1], a.end[1]), Min(a.start[2], a.end[2])>>
        hi == <<Max(a.start[1], a.end[1]), Max(a.start[2], a.end[2])>>
    IN  Min(Dist2(p, lo), Dist2(p, hi))

\* target is the annotation the claim names for p
IsTargetAt(m, p, target) ==
    LET hits == HitsAt(m, p)
        held == {i \in hits : Contains(m.selected_annotations, m.annotations[i])}
    IN  IF held # {}
        THEN target = Some(m.annotations[CHOOSE i \in held : \A j \in held : j <= i])
        ELSE IF hits # {}
        THEN \E i \in hits :
                 /\ target = Some(m.annotations[i])
                 /\ \A j \in hits :
                        \/ NearerCorner2(m, p, i) < NearerCorner2(m, p, j)
                        \/ NearerCorner2(m, p, i) = NearerCorner2(m, p, j) /\ j <= i
        ELSE target = None

\* after select_annotation(p) without Ctrl the selection is the target alone
SelectsTargetAt(m, p) ==
    \E target \in {None} \cup {Some(a) : a \in 1..Len(m.objs)} :
        /\ IsTargetAt(m, p, target)
        /\ FindTarget(m, p, Len(m.annotations), None, None) = target
        /\ select_annotation(m, p, FALSE).selected_annotations = target

\* C30: in every reachable state and for every point p, the target of
\* select_annotation(p) is the most recently added selected annotation that
\* contains p if there is one, even when a nearer unselected one contains p;
\* otherwise the unselected annotation containing p whose nearer bounding-box
\* corner is closest to p, the most recently added on ties; otherwise None
C30_TargetOfSelectAnnotation ==
    \A p \in AnnPoints : SelectsTargetAt(manager, p)

\* C30: select_annotation has kept the selected rectangle under (10, 10)
\* although the unselected line under (10, 10) has a nearer corner
C30_Witness ==
    /\ op = "select_annotation"
    /\ Len(manager.selected_annotations) = 1
    /\ LET hits == HitsAt(manager, <<10, 10>>)
       IN  \E i \in hits : \E j \in hits :
               /\ manager.selected_annotations = <<manager.annotations[i]>>
               /\ ~Contains(manager.selected_annotations, manager.annotations[j])
               /\ NearerCorner2(manager, <<10, 10>>, j) < NearerCorner2(manager, <<10, 10>>, i)
               /\ FindTarget(manager, <<10, 10>>, Len(manager.annotations), None, None)
                      = Some(manager.annotations[i])


-----------------------------------------------------------------------------
(* The selection select_annotation leaves *)

\* the annotations held in the list s, as a set
Members(s) == {s[i] : i \in 1..Len(s)}

TargetAt(m, p) == FindTarget(m, p, Len(m.annotations), None, None)

\* n is m after select_annotation(p, ctrl_pressed): without Ctrl the
\* selection is the target alone or empty, with Ctrl the target alone changes
\* its membership and a miss changes nothing
SelectionAfter(m, n, p, ctrl_pressed) ==
    LET target == TargetAt(m, p)
    IN  IF ~ctrl_pressed
        THEN n.selected_annotations = target
        ELSE IF target = None
        THEN n.selected_annotations = m.selected_annotations
        ELSE /\ NoRepeat(n.selected_annotations)
             /\ (target[1] \in Members(n.selected_annotations))
                    = (target[1] \notin Members(m.selected_annotations))
             /\ Members(n.selected_annotations) \ {target[1]}
                    = Members(m.selected_annotations) \ {target[1]}

\* two Ctrl-selects at p give back the selection set of m
TwiceRestores(m, p) ==
    Members(select_annotation(select_annotation(m, p, TRUE), p, TRUE).selected_annotations)
        = Members(m.selected_annotations)

\* C31 as stated: after select_annotation(p, ctrl_pressed), without Ctrl the
\* selection is exactly [target] on a hit and empty on a miss; with Ctrl a
\* hit toggles the membership of the target only and a miss leaves the
\* selection unchanged; and two consecutive Ctrl-selects at the same point
\* restore the selection set
C31_CtrlSelectTwiceRestores ==
    \A p \in AnnPoints :
        /\ \A ctrl_pressed \in BOOLEAN :
               SelectionAfter(manager, select_annotation(manager, p, ctrl_pressed),
                              p, ctrl_pressed)
        /\ TwiceRestores(manager, p)

\* C31: the same, where two consecutive Ctrl-selects at the same point
\* restore the selection set when the second resolves the target of the
\* first
C31_CtrlSelectToggles ==
    \A p \in AnnPoints :
        /\ \A ctrl_pressed \in BOOLEAN :
               SelectionAfter(manager, select_annotation(manager, p, ctrl_pressed),
                              p, ctrl_pressed)
        /\ TargetAt(select_annotation(manager, p, TRUE), p) = TargetAt(manager, p)
               => TwiceRestores(manager, p)

\* C31: a Ctrl-select has just added a second annotation to the selection,
\* and a Ctrl-select at (10, 10) now takes one of the two out again
C31_Witness ==
    /\ op = "select_annotation"
    /\ Len(manager.selected_annotations) = 2
    /\ TargetAt(manager, <<10, 10>>) # None
    /\ Len(select_annotation(manager, <<10, 10>>, TRUE).selected_annotations) = 1


-----------------------------------------------------------------------------
(* Ctrl+click on the drawing canvas *)

\* pointer positions of a Ctrl+click: on the shapes drawn at (80, 60) and on
\* empty space
SelectProbes == {<<80, 60>>, <<0, 0>>}

\* the shapes of c that on_select finds under (x, y)
ShapesUnder(c, x, y) ==
    {c.shapes[i] : i \in {j \in 1..Len(c.shapes) : SelectHit(c.objs[c.shapes[j]], x, y) # <<>>}}

\* s is c after a Ctrl+click at (x, y) that toggled the membership of one
\* shape under the pointer and kept every other selected shape, or that fell
\* on empty space and kept the selection
CtrlClickToggles(c, s, x, y) ==
    IF ShapesUnder(c, x, y) = {}
    THEN s.selected_shapes = c.selected_shapes
    ELSE \E h \in ShapesUnder(c, x, y) :
             /\ (h \in Members(s.selected_shapes)) = (h \notin Members(c.selected_shapes))
             /\ Members(s.selected_shapes) \ {h} = Members(c.selected_shapes) \ {h}

\* C32: in every reachable state, a Ctrl+click (on_select) on a shape
\* toggles that shape's membership in selected_shapes and keeps every other
\* selected shape selected, and a Ctrl+click on empty space leaves
\* selected_shapes unchanged
C32_CtrlClickTogglesShape ==
    \A p \in SelectProbes :
        CtrlClickToggles(canvas, on_select(canvas, p[1], p[2]), p[1], p[2])

\* what on_select does: the selection becomes the last drawn shape under the
\* pointer alone, or empty on empty space
C32_CtrlClickReplaces ==
    \A p \in SelectProbes :
        LET s == on_select(canvas, p[1], p[2])
        IN  /\ Len(s.selected_shapes) <= 1
            /\ Members(s.selected_shapes) \subseteq ShapesUnder(canvas, p[1], p[2])
            /\ (s.selected_shapes = <<>>) = (ShapesUnder(canvas, p[1], p[2]) = {})


-----------------------------------------------------------------------------
(* Annotation.move on annotations of every kind *)

\* largest distance, per axis, of a moved annotation from where it was made
MaxMove == 3

\* the annotations the moves are tried on: lines from (0, 0) whose end is
\* 0, 1, 2 or 3 above or below the start, a rectangle and a text
MoveTemplates ==
    {LineAnnotation(<<0, 0>>, <<10, e>>) : e \in -3..3}
    \cup {RectangleAnnotation(<<0, 0>>, <<10, 5>>), TextAnnotation(<<0, 0>>)}

MoveSteps == {<<dx, dy>> : dx \in -1..1, dy \in -1..1}

\* one annotation has just been constructed and added
InitMove ==
    /\ canvas = InitCanvas
    /\ manager \in {add_annotation(NewAnnotation(InitManager, t), 1) : t \in MoveTemplates}
    /\ op = "init"

\* annotation.move(dx, dy)
MoveAnnotation ==
    \E a \in 1..Len(manager.objs) : \E d \in MoveSteps :
        \E b \in {annotation_move(manager.objs[a], d[1], d[2])} :
            /\ Abs(b.start[1]) <= MaxMove /\ Abs(b.start[2]) <= MaxMove
            /\ manager' = [manager EXCEPT !.objs[a] = b]
            /\ op' = "move"
            /\ UNCHANGED canvas

SpecMove == InitMove /\ [][MoveAnnotation]_vars

LinesOf(m) == {a \in Range(m.objs) : a.type = "line"}

\* b is a moved by exactly (dx, dy)
MovedBy(a, b, d) ==
    /\ b.start = <<a.start[1] + d[1], a.start[2] + d[2]>>
    /\ b.end = <<a.end[1] + d[1], a.end[2] + d[2]>>

\* C33: a LineAnnotation whose endpoints differ in y by less than 2 at
\* creation has is_horizontal true for its whole lifetime and has
\* end.y = start.y after every move; a line created with a y difference of
\* 2 or more has is_horizontal false for its whole lifetime and every move
\* translates both endpoints by exactly (dx, dy).  The lock keeps the y
\* difference below 2 and a translation keeps it at 2 or more, so in every
\* state is_horizontal still tells on which side the line was created.
C33_HorizontalLock ==
    \A a \in LinesOf(manager) :
        /\ a.is_horizontal = (Abs(a.start[2] - a.end[2]) < 2)
        /\ op = "move" /\ a.is_horizontal => a.end[2] = a.start[2]
        /\ \A d \in MoveSteps :
               LET b == annotation_move(a, d[1], d[2])
               IN  /\ b.is_horizontal = a.is_horizontal
                   /\ a.is_horizontal => b.end[2] = b.start[2]
                   /\ ~a.is_horizontal => MovedBy(a, b, d)

\* a line made with a y difference of 1 that a move has levelled, next to a
\* state where a tilted line has moved and kept its tilt
C33_Witness ==
    /\ op = "move"
    /\ \E a \in LinesOf(manager) :
           \/ a.is_horizontal /\ a.start[2] = 1 /\ a.end[2] = 1 /\ a.start[1] = 1
           \/ ~a.is_horizontal /\ a.start = <<1, 1>> /\ a.end = <<11, 3>>

\* move(dx, dy) followed by move(-dx, -dy) restores a, and move(0, 0)
\* changes nothing
MoveRestores(a) ==
    /\ annotation_move(a, 0, 0) = a
    /\ \A d \in MoveSteps :
           annotation_move(annotation_move(a, d[1], d[2]), -d[1], -d[2]) = a

Unlevelled(a) == a.type = "line" /\ a.is_horizontal /\ a.end[2] # a.start[2]

-----------------------------------------------------------------------------
(* Intersections of circles drawn along the x axis *)

\* centres and rim points: every distance and every radius is a whole number
CircleClicks == {<<0, 0>>, <<20, 0>>, <<40, 0>>}

Circ == Scope(CircleClicks, {"circle"}, MaxShapes, MaxUndo, MaxPoints)

NextCirc ==
    \/ OnClick(Circ)
    \/ SetMode(Circ)
    \/ Undo(Circ)

SpecCirc == Init /\ [][NextCirc]_vars

CirclesOf(c) == {o \in Range(c.objs) : o.kind = "Circle"}

\* the radius and the distance between centres, where they are whole
Radius(o) == ISqrt(o.radius2)
CentreDist(a, b) == ISqrt(Dist2(<<a.center_x, a.center_y>>, <<b.center_x, b.center_y>>))
WholeRadii(a, b) ==
    /\ Radius(a) * Radius(a) = a.radius2
    /\ Radius(b) * Radius(b) = b.radius2
    /\ CentreDist(a, b) * CentreDist(a, b)
           = Dist2(<<a.center_x, a.center_y>>, <<b.center_x, b.center_y>>)

\* the number of points the spec gives for circles a and b
PointCount(a, b) ==
    LET d == CentreDist(a, b)
        r1 == Radius(a)
        r2 == Radius(b)
    IN  IF d > r1 + r2 \/ d < Abs(r1 - r2) \/ (d = 0 /\ r1 = r2) THEN 0
        ELSE IF d = r1 + r2 \/ d = Abs(r1 - r2) THEN 1
        ELSE 2

\* p is on circle o; the coordinates of the model are whole numbers, so the
\* distance of p from the centre may differ from the radius by the rounding
\* of the two coordinates, which is less than 2
OnCircle(p, o) ==
    LET D == Dist2(p, <<o.center_x, o.center_y>>)
    IN  Abs(D - o.radius2) <= 2 * (ISqrt(D) + Radius(o) + 1)

CountsAsClassified(a, b) ==
    Len(get_circle_circle_intersection(a, b)) = PointCount(a, b)

PointsOnBoth(a, b) ==
    \A p \in Range(get_circle_circle_intersection(a, b)) : OnCircle(p, a) /\ OnCircle(p, b)

\* a is the smaller circle and touches b from inside
SmallerInside(a, b) ==
    /\ PointCount(a, b) = 1
    /\ CentreDist(a, b) = Radius(b) - Radius(a)
    /\ Radius(a) > 0

\* C35: get_circle_circle_intersection(c1, c2) returns no point when
\* d > r1 + r2, when d < |r1 - r2| or when the circles coincide, exactly one
\* point when d = r1 + r2 or d = |r1 - r2|, exactly two points otherwise, and
\* every returned point lies on both circles
C35_CircleCircleIntersection ==
    \A a \in CirclesOf(canvas) : \A b \in CirclesOf(canvas) :
        WholeRadii(a, b) => CountsAsClassified(a, b) /\ PointsOnBoth(a, b)

\* the number of points is as stated for every pair, and the points lie on
\* both circles unless the first circle touches the second from inside
C35_ExceptSmallerInside ==
    \A a \in CirclesOf(canvas) : \A b \in CirclesOf(canvas) :
        WholeRadii(a, b) =>
            /\ CountsAsClassified(a, b)
            /\ ~SmallerInside(a, b) => PointsOnBoth(a, b)


\* get_intersection_points gives the same set of points for a and b in
\* either order
SameEitherWay(a, b) ==
    Range(get_intersection_points(a, b)) = Range(get_intersection_points(b, a))

\* C34: for any two shapes A and B among Line, Rectangle, Circle and
\* Polygon, get_intersection_points(A, B) and get_intersection_points(B, A)
\* return the same set of points
C34_IntersectionIsSymmetric ==
    \A a \in Range(canvas.objs) : \A b \in Range(canvas.objs) :
        ~ShapeLinesRaise(a) /\ ~ShapeLinesRaise(b) => SameEitherWay(a, b)

\* the two orders agree for every pair of shapes other than two circles of
\* which the smaller touches the larger from inside
C34_ExceptSmallerInside ==
    \A a \in Range(canvas.objs) : \A b \in Range(canvas.objs) :
        /\ ~ShapeLinesRaise(a) /\ ~ShapeLinesRaise(b)
        /\ ~(a.kind = "Circle" /\ b.kind = "Circle"
             /\ (SmallerInside(a, b) \/ SmallerInside(b, a)))
        => SameEitherWay(a, b)


-----------------------------------------------------------------------------
(* Pending points and the drawing mode *)

\* C36: in every state reachable through clicks, right-clicks, Escape and
\* mode changes, while the mode is line, rectangle or circle current_points
\* holds at most one point; only polygon mode holds two or more pending
\* points
C36_TwoPointModesHoldOnePoint ==
    canvas.mode \in {"line", "rectangle", "circle"} => Len(canvas.current_points) <= 1

\* the handlers themselves never add a second point outside polygon mode:
\* two or more pending points outside polygon mode are points that were
\* pending before the last handler ran
C36_OnlyModeChangeCarriesPoints ==
    [][canvas'.mode # "polygon" /\ Len(canvas'.current_points) >= 2
           => /\ Len(canvas.current_points) >= 2
              /\ canvas'.current_points = canvas.current_points]_vars


-----------------------------------------------------------------------------
(* undo and redo after every other operation, reset included *)

Wipe == Scope(LogClicks, {"line"}, MaxShapes, MaxUndo, MaxPoints)

NextWipe ==
    \/ OnClick(Wipe)
    \/ OnEscape(Wipe)
    \/ OnSelect(Wipe)
    \/ SelectAll(Wipe)
    \/ DeleteSelected(Wipe)
    \/ DuplicateSelected(Wipe)
    \/ SetColor(Wipe)
    \/ Reset(Wipe)
    \/ Undo(Wipe)
    \/ Redo(Wipe)

SpecWipe == Init /\ [][NextWipe]_vars

\* C37: in every state reachable through on_click, on_escape, on_select,
\* select_all, delete_selected, duplicate_selected, the set_* methods, reset,
\* undo and redo, a call of undo() or of redo() returns without raising
C37_UndoRedoNeverRaise ==
    undo(canvas).exc = "" /\ redo(canvas).exc = ""

\* undo and redo return without raising as long as every shape that an
\* add_shape entry on the undo stack refers to is in shapes, which reset is
\* the only operation to break
C37_UnlessShapeWiped ==
    (\A i \in 1..Len(canvas.undo_stack) :
         canvas.undo_stack[i].type = "add_shape"
             => Contains(canvas.shapes, canvas.undo_stack[i].shape))
    => undo(canvas).exc = "" /\ redo(canvas).exc = ""


-----------------------------------------------------------------------------
(* points and coordinates of a shape *)

\* the points list derived from the coordinates of the shape o
DerivedPoints(o) ==
    IF o.kind = "Line" THEN <<(<<o.x1, o.y1>>), (<<o.x2, o.y2>>)>>
    ELSE IF o.kind = "Rectangle" THEN RectPoints(o.x1, o.y1, o.x2, o.y2)
    ELSE IF o.kind = "Circle" THEN <<(<<o.center_x, o.center_y>>), (<<o.x2, o.y2>>)>>
    ELSE o.points

\* C38: in every reachable state of DrawingCanvas each shape's points list
\* equals the list derived from its own coordinates: [(x1,y1),(x2,y2)] for
\* a Line, the four corners for a Rectangle, [(center_x,center_y),(x2,y2)]
\* for a Circle
C38_PointsFollowCoordinates ==
    \A i \in 1..Len(canvas.shapes) :
        canvas.objs[canvas.shapes[i]].points = DerivedPoints(canvas.objs[canvas.shapes[i]])

\* a step keeps the points in line with the coordinates unless it drags a
\* selection whose first shape is of another kind than a later one, or
\* resizes with more than one shape selected
C38_OutsideMixedSelections ==
    [][(\A i \in 1..Len(canvas.objs) : canvas.objs[i].points = DerivedPoints(canvas.objs[i]))
       /\ (\A i \in 1..Len(canvas.selected_shapes) :
               canvas.objs[canvas.selected_shapes[i]].kind
                   = canvas.objs[canvas.selected_shapes[1]].kind)
       /\ (canvas.is_resizing => Len(canvas.selected_shapes) <= 1)
       => \A i \in 1..Len(canvas'.objs) : canvas'.objs[i].points = DerivedPoints(canvas'.objs[i])]_vars

-----------------------------------------------------------------------------
(* is_selected and selected_annotations *)

\* C39: in every state of AnnotationManager reachable through
\* add_annotation, remove_annotation, select_annotation, select_multiple and
\* clear_selection, an annotation in annotations has is_selected = True
\* exactly when it is a member of selected_annotations
C39_FlagMatchesSelection ==
    \A a \in Members(manager.annotations) :
        manager.objs[a].is_selected = (a \in Members(manager.selected_annotations))


\* the flag of every annotation object, held or not, matches its membership
\* in selected_annotations
FlagsMatch(m) ==
    \A a \in 1..Len(m.objs) :
        m.objs[a].is_selected = (a \in Members(m.selected_annotations))

\* every method other than remove_annotation keeps the flags in line with
\* selected_annotations
C39_OnlyRemoveLeavesFlag ==
    [][FlagsMatch(manager) /\ op' # "remove_annotation" => FlagsMatch(manager')]_vars

=============================================================================
